---- MODULE Spec2Model ----
(***************************************************************************)
(* Order / payment state machine of the yanjiuyuan backend:                *)
(*   server/lib/zpay.mjs        signature codec and order number generator *)
(*   server/routes/checkout.mjs checkout, provider webhook, status poll    *)
(*   server/app.mjs             POST /api/analyze and its payment gate     *)
(*   supabase table             zpay_transactions                          *)
(*   pages/Index.tsx            the page: upload, payment, polling,        *)
(*                              return URL, analysis                       *)
(*                                                                         *)
(* JavaScript strings are TLA+ strings (sequences of characters read with  *)
(* SubSeq).  A request handler is cut at its awaits on the database and on *)
(* the AI service: the code between two awaits touches only local          *)
(* variables, so each action is one database statement together with the   *)
(* local code that follows it up to the next await or the response.        *)
(***************************************************************************)
EXTENDS Bags, FiniteSets, Integers, Sequences, TLC

(***************************************************************************)
(* JavaScript values                                                       *)
(***************************************************************************)
\* the value of a field that is absent from an object (not a string a
\* client can send)
Undefined == "<undefined>"

\* the value null
Null == "<null>"

\* characters in ascending code-unit order; the position of a character is
\* used wherever the source compares strings with < and >
CodeUnits == "%&+-./0123456789:=?ABCDEFGHIJKLMNOPQRSTUVWXYZ_abcdefghijklmnopqrstuvwxyz"

CharAt(s, i) == SubSeq(s, i, i)

CodeOf(c) == CHOOSE i \in 1..Len(CodeUnits) : CharAt(CodeUnits, i) = c

\* a < b on two strings: lexicographic on code units
RECURSIVE StrLess(_, _)
StrLess(a, b) ==
  IF Len(b) = 0 THEN FALSE
  ELSE IF Len(a) = 0 THEN TRUE
  ELSE IF Head(a) = Head(b) THEN StrLess(Tail(a), Tail(b))
  ELSE CodeOf(Head(a)) < CodeOf(Head(b))

\* !v for the values that occur here
Falsy(v) == v = Undefined \/ v = Null \/ v = ""

\* obj[k] for an object given as its entries <<key, value>> in insertion order
RECURSIVE Get(_, _)
Get(obj, k) ==
  IF obj = <<>> THEN Undefined
  ELSE IF Head(obj)[1] = k THEN Head(obj)[2]
  ELSE Get(Tail(obj), k)

(***************************************************************************)
(* Numbers: the IEEE 754 doubles of JavaScript. A finite number is held    *)
(* by its exact decimal expansion, sign * digits * 10^exp, with digits a   *)
(* sequence of decimal digits free of leading and trailing zeros (zero has *)
(* no digits; -0 and 0 are one number here, as they are for === and for    *)
(* String). Every double has such an expansion, so two numbers are equal   *)
(* exactly when their records are.                                          *)
(***************************************************************************)
NaN == [kind |-> "NaN", sign |-> 1, digits |-> <<>>, exp |-> 0]

Infinity(sign) == [kind |-> "Infinity", sign |-> sign, digits |-> <<>>, exp |-> 0]

IsNaN(x) == x.kind = "NaN"

\* a !== b on two numbers (NaN differs from everything, itself included)
NumNotEqual(a, b) == IsNaN(a) \/ IsNaN(b) \/ a # b

DecimalDigits == "0123456789"

IsDigit(c) == \E i \in 1..10 : CharAt(DecimalDigits, i) = c

DigitValue(c) == (CHOOSE i \in 1..10 : CharAt(DecimalDigits, i) = c) - 1

\* the longest prefix of s made of decimal digits
DigitPrefix(s) ==
  LET n == CHOOSE k \in 0..Len(s) :
             /\ k < Len(s) => ~IsDigit(CharAt(s, k + 1))
             /\ \A j \in 1..k : IsDigit(CharAt(s, j))
  IN SubSeq(s, 1, n)

RECURSIVE DigitsToInt(_, _)
DigitsToInt(s, acc) ==
  IF Len(s) = 0 THEN acc ELSE DigitsToInt(Tail(s), 10 * acc + DigitValue(Head(s)))

RECURSIVE PadStart(_, _, _)
PadStart(s, l, fill) == IF Len(s) >= l THEN s ELSE PadStart(fill \o s, l, fill)

\* natural numbers of any size: the sequence of their decimal digits, most
\* significant first, without leading zeros (zero is the empty sequence)
Zeros(n) == [i \in 1..n |-> 0]

NatStrip(a) ==
  IF \A i \in 1..Len(a) : a[i] = 0 THEN <<>>
  ELSE SubSeq(a, CHOOSE i \in 1..Len(a) : a[i] # 0 /\ \A j \in 1..(i - 1) : a[j] = 0, Len(a))

NatDigits(s) == NatStrip([i \in 1..Len(s) |-> DigitValue(CharAt(s, i))])

RECURSIVE NatText(_, _, _)
NatText(a, i, j) ==
  IF i > j THEN ""
  ELSE IF i = j THEN CharAt(DecimalDigits, a[i] + 1)
  ELSE NatText(a, i, (i + j) \div 2) \o NatText(a, (i + j) \div 2 + 1, j)

\* the first place from i on where a and b differ (one past the end if none)
FirstDifference(a, b, i) ==
  CHOOSE j \in i..(Len(a) + 1) :
    (j = Len(a) + 1 \/ a[j] # b[j]) /\ \A k \in i..(j - 1) : a[k] = b[k]

NatLess(a, b) ==
  \/ Len(a) < Len(b)
  \/ /\ Len(a) = Len(b)
     /\ \E j \in {FirstDifference(a, b, 1)} : j <= Len(a) /\ a[j] < b[j]

\* 2a: the carry into a digit is 1 exactly when the digit below it is 5 or more
NatDouble(a) ==
  LET b == IF a # <<>> /\ a[1] >= 5 THEN <<0>> \o a ELSE a
  IN <<>> \o [i \in 1..Len(b) |->
                ((2 * b[i]) % 10) + (IF i < Len(b) /\ b[i + 1] >= 5 THEN 1 ELSE 0)]

\* a div 2: an odd digit hands 5 to the digit below it
NatHalf(a) ==
  NatStrip([i \in 1..Len(a) |-> (a[i] \div 2) + (IF i > 1 /\ a[i - 1] % 2 = 1 THEN 5 ELSE 0)])

NatTimes5(a) == NatHalf(a \o <<0>>)

\* a + 1
NatSucc(a) ==
  IF \A i \in 1..Len(a) : a[i] = 9 THEN <<1>> \o Zeros(Len(a))
  ELSE LET k == CHOOSE i \in 1..Len(a) : a[i] # 9 /\ \A j \in (i + 1)..Len(a) : a[j] = 9
       IN <<>> \o [i \in 1..Len(a) |-> IF i < k THEN a[i] ELSE IF i = k THEN a[i] + 1 ELSE 0]

\* a - b for a >= b: a digit borrows when the digits below it are less than
\* those of b
NatSub(a, b) ==
  LET n  == Len(a)
      bb == Zeros(n - Len(b)) \o b
      borrow(i) == \E j \in {FirstDifference(a, bb, i + 1)} : j <= n /\ a[j] < bb[j]
  IN NatStrip([i \in 1..n |-> (a[i] - bb[i] - (IF borrow(i) THEN 1 ELSE 0) + 10) % 10])

\* a * 2^k and a * 5^k, the first half of the steps worked out before the
\* second half begins
RECURSIVE NatTimesPow2(_, _)
NatTimesPow2(a, k) ==
  IF k = 0 THEN a
  ELSE IF k = 1 THEN NatDouble(a)
  ELSE CHOOSE r \in { NatTimesPow2(h, k - (k \div 2)) : h \in {NatTimesPow2(a, k \div 2)} } : TRUE

RECURSIVE NatTimesPow5(_, _)
NatTimesPow5(a, k) ==
  IF k = 0 THEN a
  ELSE IF k = 1 THEN NatTimes5(a)
  ELSE CHOOSE r \in { NatTimesPow5(h, k - (k \div 2)) : h \in {NatTimesPow5(a, k \div 2)} } : TRUE

\* the finite number sign * a * 10^exp, normalised
FiniteOf(sign, b, exp) ==
  IF b = <<>> THEN [kind |-> "finite", sign |-> 1, digits |-> <<>>, exp |-> 0]
  ELSE LET k == CHOOSE i \in 1..Len(b) : b[i] # 0 /\ \A j \in (i + 1)..Len(b) : b[j] = 0
       IN [kind |-> "finite", sign |-> sign, digits |-> SubSeq(b, 1, k),
           exp |-> exp + (Len(b) - k)]

Finite(sign, a, exp) == FiniteOf(sign, NatStrip(a), exp)

\* one binary digit of n / m (n < 2m) appended to q, n replaced by twice the
\* remainder
QuotientDigit(t, m, bit) ==
  [q    |-> IF bit THEN NatSucc(NatDouble(t.q)) ELSE NatDouble(t.q),
   rest |-> NatDouble(IF bit THEN NatSub(t.rest, m) ELSE t.rest)]

QuotientStep(t, m) == QuotientDigit(t, m, ~NatLess(t.rest, m))

\* k such steps
RECURSIVE Quotient(_, _, _)
Quotient(t, m, k) ==
  IF k = 0 THEN t
  ELSE IF k = 1 THEN QuotientStep(t, m)
  ELSE CHOOSE r \in { Quotient(h, m, k - (k \div 2)) : h \in {Quotient(t, m, k \div 2)} } : TRUE

\* the binary exponent of n / m * 2^k for n >= m: the k' with
\* 2^k' <= n / m * 2^k < 2^(k' + 1), and n / (m * 2^(k' - k))
RECURSIVE BinaryExponent(_, _, _)
BinaryExponent(n, m, k) ==
  IF NatLess(n, NatDouble(m)) THEN [n |-> n, m |-> m, e |-> k]
  ELSE BinaryExponent(n, NatDouble(m), k + 1)

\* d * 10^exp as n / m * 2^e with n < 2m, and m <= n unless e is -1022, the
\* least exponent of a double (2^lo <= 10^(Len(d) + exp - 1) <= d * 10^exp)
ScaledFrom(n, m, k0) ==
  IF NatLess(n, m) THEN [n |-> n, m |-> m, e |-> k0] ELSE BinaryExponent(n, m, k0)

Scaled(d, exp) ==
  LET lo == (((Len(d) + exp - 1) * 3321) \div 1000) - 1
      k0 == IF lo < -1022 THEN -1022 ELSE lo
      n0 == IF exp >= 0 THEN d \o Zeros(exp) ELSE d
      m0 == IF exp >= 0 THEN <<1>> ELSE <<1>> \o Zeros(0 - exp)
  IN ScaledFrom(IF k0 < 0 THEN NatTimesPow2(n0, 0 - k0) ELSE n0,
                IF k0 > 0 THEN NatTimesPow2(m0, k0) ELSE m0, k0)

\* n / m * 2^52 rounded to an integer (to nearest, ties to even)
Rounded(t, m) ==
  IF \/ NatLess(m, t.rest)
     \/ (t.rest = m /\ t.q # <<>> /\ t.q[Len(t.q)] % 2 = 1)
  THEN NatSucc(t.q) ELSE t.q

Significand(n, m) == Rounded(Quotient([q |-> <<>>, rest |-> n], m, 53), m)

\* sign * q * 2^(e - 52); 2^1024 and more is Infinity
Double(sign, q, e) ==
  IF e >= 1024 \/ (e = 1023 /\ q = NatTimesPow2(<<1>>, 53)) THEN Infinity(sign)
  ELSE IF e >= 52 THEN Finite(sign, NatTimesPow2(q, e - 52), 0)
  ELSE Finite(sign, NatTimesPow5(q, 52 - e), e - 52)

\* the double nearest to sign * a * 10^exp (round to nearest, ties to even):
\* 53 binary digits from the binary exponent down, not below 2^-1074
Nearest(sign, b) == Double(sign, Significand(b.n, b.m), b.e)

NearestTo(sign, d, exp) ==
  IF d = <<>> THEN Finite(sign, <<>>, 0)
  ELSE IF Len(d) + exp > 309 THEN Infinity(sign)
  ELSE IF Len(d) + exp < -323 THEN Finite(sign, <<>>, 0)
  ELSE Nearest(sign, Scaled(d, exp))

ToDouble(sign, a, exp) == NearestTo(sign, NatStrip(a), exp)

\* a rounded to its first k digits (to nearest, ties to even), with the
\* number of digits the rounding added in front (999 to two digits is 10,
\* one digit more)
FirstDigits(r, k) == [digits |-> SubSeq(r, 1, k), grew |-> Len(r) - k]

RoundDigits(a, k) ==
  IF Len(a) <= k THEN [digits |-> a, grew |-> 0]
  ELSE LET head == SubSeq(a, 1, k)
           rest == SubSeq(a, k + 1, Len(a))
           half == rest[1] = 5 /\ \A i \in 2..Len(rest) : rest[i] = 0
           up   == rest[1] > 5 \/ (rest[1] = 5 /\ ~half) \/ (half /\ head[k] % 2 = 1)
       IN FirstDigits(IF up THEN NatSucc(head) ELSE head, k)

\* the other neighbour of a among the numbers of k digits
OtherDigits(a, k) ==
  LET head == SubSeq(a, 1, k)
  IN FirstDigits(IF RoundDigits(a, k) = [digits |-> head, grew |-> 0] THEN NatSucc(head) ELSE head,
                 k)

\* whether the k-digit number c.digits, put where the digits of x begin, reads
\* back as x
ReadsBack(x, c) == ToDouble(x.sign, c.digits, Len(x.digits) + x.exp + c.grew - Len(c.digits)) = x

\* Number::toString, the digits: the fewest digits s, k or more, and the n
\* with 0.s * 10^n reading back as x; of two such s the nearer to x (other
\* tells that the nearer one of k digits did not read back)
RECURSIVE Shortest(_, _, _)
ShortestFrom(x, k, other, c) ==
  IF ReadsBack(x, c)
    THEN [digits |-> Finite(1, c.digits, 0).digits, n |-> Len(x.digits) + x.exp + c.grew]
  ELSE IF ~other /\ Len(x.digits) > k THEN Shortest(x, k, TRUE)
  ELSE Shortest(x, k + 1, FALSE)

Shortest(x, k, other) ==
  ShortestFrom(x, k, other,
               IF other THEN OtherDigits(x.digits, k) ELSE RoundDigits(x.digits, k))

\* Number::toString for the digits t (k of them) and the n of a finite number
\* other than zero
FiniteText(t, k, n) ==
  IF k <= n /\ n <= 21 THEN t \o NatText(Zeros(n - k), 1, n - k)
  ELSE IF 0 < n /\ n <= 21 THEN SubSeq(t, 1, n) \o "." \o SubSeq(t, n + 1, k)
  ELSE IF -6 < n /\ n <= 0 THEN "0." \o NatText(Zeros(0 - n), 1, 0 - n) \o t
  ELSE (IF k = 1 THEN t ELSE SubSeq(t, 1, 1) \o "." \o SubSeq(t, 2, k))
         \o "e" \o (IF n - 1 < 0 THEN "-" \o ToString(1 - n) ELSE "+" \o ToString(n - 1))

\* String(x)
ShortestText(s) == FiniteText(NatText(s.digits, 1, Len(s.digits)), Len(s.digits), s.n)

NumberToString(x) ==
  IF IsNaN(x) THEN "NaN"
  ELSE IF x.kind = "Infinity" THEN (IF x.sign < 0 THEN "-Infinity" ELSE "Infinity")
  ELSE IF x.digits = <<>> THEN "0"
  ELSE (IF x.sign < 0 THEN "-" ELSE "") \o ShortestText(Shortest(x, 1, FALSE))

\* white space that parseFloat skips in front of the number: the characters
\* of StrWhiteSpaceChar that a string of the model can hold (space, TAB, LF,
\* CR, FF, VT, NBSP U+00A0, ZWNBSP U+FEFF, U+1680; not U+2000 to U+200A,
\* U+2028, U+2029, U+202F, U+205F, U+3000)
WhiteSpace == {" ", "\t", "\n", "\r", "\f", "", " ", "﻿", " "}

TrimStart(s) ==
  LET n == CHOOSE k \in 0..Len(s) :
             /\ k < Len(s) => CharAt(s, k + 1) \notin WhiteSpace
             /\ \A j \in 1..k : CharAt(s, j) \in WhiteSpace
  IN SubSeq(s, n + 1, Len(s))

\* 2^30: a string of node has fewer characters (String::kMaxLength is
\* 2^29 - 24), so that a number other than zero with an exponent this large
\* is beyond every double, however many digits are written before it
ExponentLimit == 1073741824

\* the value of the exponent digits, ExponentLimit for that value and above
ExponentOf(d) ==
  IF NatLess(d, <<1, 0, 7, 3, 7, 4, 1, 8, 2, 4>>) THEN DigitsToInt(NatText(d, 1, Len(d)), 0)
  ELSE ExponentLimit

ExponentValue(s) == ExponentOf(NatDigits(s))

\* ExponentPart at the head of r: e or E, an optional sign, digits (without
\* digits there is no exponent part)
ExponentPart(r) ==
  LET mark == Len(r) > 0 /\ Head(r) \in {"e", "E"}
      sign == mark /\ Len(r) > 1 /\ Head(Tail(r)) \in {"+", "-"}
      neg  == sign /\ Head(Tail(r)) = "-"
  IN IF ~mark THEN 0
     ELSE (IF neg THEN -1 ELSE 1)
            * ExponentValue(DigitPrefix(IF sign THEN Tail(Tail(r)) ELSE Tail(r)))

\* the digits ip before the point, fp after it, and the text that follows
\* them; no digit at all gives NaN
Decimal(ip, fp, rest) ==
  IF Len(ip) = 0 /\ Len(fp) = 0 THEN NaN
  ELSE ToDouble(1, NatDigits(ip \o fp), ExponentPart(rest) - Len(fp))

\* the digits ip, and the digits fp that head the text r after the point
Fraction(ip, r, fp) == Decimal(ip, fp, SubSeq(r, Len(fp) + 1, Len(r)))

\* the digits ip and the text r after them, which a point heads or not
Point(ip, r, dot) ==
  Fraction(ip, IF dot THEN Tail(r) ELSE r, IF dot THEN DigitPrefix(Tail(r)) ELSE "")

\* the digits ip that head s
Integer(s, ip) ==
  Point(ip, SubSeq(s, Len(ip) + 1, Len(s)),
        Len(s) > Len(ip) /\ CharAt(s, Len(ip) + 1) = ".")

\* StrUnsignedDecimalLiteral: Infinity, or digits with an optional fraction
\* and an optional exponent part; what follows the longest such prefix is
\* ignored
ParseFloatUnsigned(s) ==
  IF Len(s) >= 8 /\ SubSeq(s, 1, 8) = "Infinity" THEN Infinity(1)
  ELSE Integer(s, DigitPrefix(s))

\* -x (zero keeps its one form)
Negate(x) ==
  IF IsNaN(x) \/ (x.kind = "finite" /\ x.digits = <<>>) THEN x
  ELSE [x EXCEPT !.sign = 0 - x.sign]

\* parseFloat of a string: leading white space, an optional sign, the number
WithSign(neg, x) == IF neg THEN Negate(x) ELSE x

ParseFloatTrimmed(t) ==
  WithSign(Len(t) > 0 /\ Head(t) = "-",
           ParseFloatUnsigned(IF Len(t) > 0 /\ Head(t) \in {"+", "-"} THEN Tail(t) ELSE t))

parseFloatStr(s) == ParseFloatTrimmed(TrimStart(s))

\* parseFloat of a number converts it to a string first
parseFloatNum(x) == parseFloatStr(NumberToString(x))

\* the text of a DECIMAL(10, 2) column for the digits s of a number: rounded
\* to two places, halves away from zero
\* the digits a with zeros after them up to n digits
ZeroFilled(a, n) == IF Len(a) < n THEN a \o Zeros(n - Len(a)) ELSE a

\* the first n digits of b, one added when the digit after them is 5 or more
HalfUp(b, n) ==
  IF b[n + 1] >= 5 THEN NatSucc(NatStrip(SubSeq(b, 1, n))) ELSE NatStrip(SubSeq(b, 1, n))

\* the digits t with a point before the last two
TwoPlaces(t) == SubSeq(t, 1, Len(t) - 2) \o "." \o SubSeq(t, Len(t) - 1, Len(t))

CentsText(cents, negative) ==
  (IF negative /\ cents # <<>> THEN "-" ELSE "")
    \o TwoPlaces(PadStart(NatText(cents, 1, Len(cents)), 3, "0"))

DecimalDigitsText(s, negative) ==
  LET lead  == IF s.n + 2 < 1 THEN 1 - (s.n + 2) ELSE 0
      whole == s.n + lead + 2
  IN CentsText(HalfUp(ZeroFilled(Zeros(lead) \o s.digits, whole + 1), whole), negative)

\* the text of a DECIMAL(10, 2) column that was given the number x
DecimalText(x) ==
  DecimalDigitsText(IF x.digits = <<>> THEN [digits |-> <<>>, n |-> 0] ELSE Shortest(x, 1, FALSE),
                    x.sign < 0)

(***************************************************************************)
(* server/lib/zpay.mjs                                                     *)
(***************************************************************************)
RECURSIVE FilterSigned(_)
FilterSigned(entries) ==
  IF entries = <<>> THEN <<>>
  ELSE LET k == Head(entries)[1]
           v == Head(entries)[2]
       IN IF v # "" /\ v # Null /\ v # Undefined /\ k # "sign" /\ k # "sign_type"
          THEN <<Head(entries)>> \o FilterSigned(Tail(entries))
          ELSE FilterSigned(Tail(entries))

\* the comparator with its two results exchanged
CompareKeysDescending(a, b) == IF StrLess(a, b) THEN 1 ELSE IF StrLess(b, a) THEN -1 ELSE 0

\* the comparator of the sort: a < b ? -1 : a > b ? 1 : 0
CompareKeys(a, b) == IF StrLess(a, b) THEN -1 ELSE IF StrLess(b, a) THEN 1 ELSE 0

\* insert e into a sorted list after the entries that do not compare greater
\* (Array.prototype.sort is stable)
RECURSIVE InsertSorted(_, _)
InsertSorted(e, sorted) ==
  IF sorted = <<>> THEN <<e>>
  ELSE IF CompareKeys(e[1], Head(sorted)[1]) < 0 THEN <<e>> \o sorted
  ELSE <<Head(sorted)>> \o InsertSorted(e, Tail(sorted))

RECURSIVE SortByKey(_)
SortByKey(entries) ==
  IF entries = <<>> THEN <<>>
  ELSE InsertSorted(entries[Len(entries)], SortByKey(SubSeq(entries, 1, Len(entries) - 1)))

\* a join that leaves the values out
RECURSIVE JoinPairsKeys(_)
JoinPairsKeys(entries) ==
  IF entries = <<>> THEN ""
  ELSE IF Len(entries) = 1 THEN Head(entries)[1]
  ELSE Head(entries)[1] \o "&" \o JoinPairsKeys(Tail(entries))

RECURSIVE JoinPairs(_)
JoinPairs(entries) ==
  IF entries = <<>> THEN ""
  ELSE IF Len(entries) = 1 THEN Head(entries)[1] \o "=" \o Head(entries)[2]
  ELSE Head(entries)[1] \o "=" \o Head(entries)[2] \o "&" \o JoinPairs(Tail(entries))

buildSignString(params) == JoinPairs(SortByKey(FilterSigned(params)))

\* crypto.createHash("md5").update(s).digest("hex"): the digest is kept
\* symbolic, one distinct lowercase text per input
Md5Hex(s) == "md5(" \o s \o ")"

\* a signature that leaves the secret out of the digest
generateSignNoKey(params, key) == Md5Hex(buildSignString(params))

generateSign(params, key) == Md5Hex(buildSignString(params) \o key)

\* verifySign that only looks whether a sign field is there
verifySignPresent(params, key) == ~Falsy(Get(params, "sign"))

verifySign(params, key) ==
  IF Falsy(Get(params, "sign")) THEN FALSE
  ELSE Get(params, "sign") = generateSign(params, key)

\* the helper without its padding
pNoPad(n, l) == ToString(n)

\* generateOrderNo for the local time d and with u = Math.floor(Math.random() * 900)
p(n, l) == PadStart(ToString(n), l, "0")

\* the timestamp written day first
generateOrderNoDayFirst(d, u) ==
  LET ts   == p(d.date, 2) \o p(d.month + 1, 2) \o ToString(d.year)
                \o p(d.hours, 2) \o p(d.minutes, 2) \o p(d.seconds, 2)
      rand == u + 100
  IN ts \o ToString(rand)

generateOrderNo(d, u) ==
  LET ts   == ToString(d.year) \o p(d.month + 1, 2) \o p(d.date, 2)
                \o p(d.hours, 2) \o p(d.minutes, 2) \o p(d.seconds, 2)
      rand == u + 100
  IN ts \o ToString(rand)

(***************************************************************************)
(* Configuration and program constants                                     *)
(***************************************************************************)
\* process.env.ZPAY_KEY, ZPAY_PID, NEXT_PUBLIC_BASE_URL of the deployment
ZPAY_KEY == "k3y"

ZPAY_PID == "1001"

BASE_URL == "https://h.cn"

ZPAY_SUBMIT_URL == "https://zpayz.cn/submit.php"

ORDER_AMOUNT == "0.50"

\* the product name (a Chinese text in the source), transliterated
PRODUCT_NAME == "yanjiuyuan"

\* process.env.NEXT_PUBLIC_SUPABASE_URL and SUPABASE_SERVICE_ROLE_KEY
SUPABASE_URL == "https://db.cn"

SERVICE_ROLE_KEY == "r0le"

\* process.env.DASHSCOPE_API_KEY
DASHSCOPE_API_KEY == "sk-1"

\* process.env as the handlers read it; a variable that is not set is
\* Undefined
Environment(pid, key, baseUrl, supabaseUrl, serviceRoleKey, apiKey) ==
  [ZPAY_PID |-> pid, ZPAY_KEY |-> key, NEXT_PUBLIC_BASE_URL |-> baseUrl,
   NEXT_PUBLIC_SUPABASE_URL |-> supabaseUrl, SUPABASE_SERVICE_ROLE_KEY |-> serviceRoleKey,
   DASHSCOPE_API_KEY |-> apiKey]

\* the deployment with every variable set
FullEnv ==
  Environment(ZPAY_PID, ZPAY_KEY, BASE_URL, SUPABASE_URL, SERVICE_ROLE_KEY, DASHSCOPE_API_KEY)

\* the deployments: each variable set or not
Envs ==
  { Environment(t[1], t[2], t[3], t[4], t[5], t[6]) :
      t \in {ZPAY_PID, Undefined} \X {ZPAY_KEY, Undefined} \X {BASE_URL, Undefined}
               \X {SUPABASE_URL, Undefined} \X {SERVICE_ROLE_KEY, Undefined}
               \X {DASHSCOPE_API_KEY, Undefined} }

\* !!(process.env.NEXT_PUBLIC_SUPABASE_URL && process.env.ZPAY_PID)
PaymentRequired(e) == ~Falsy(e.NEXT_PUBLIC_SUPABASE_URL) /\ ~Falsy(e.ZPAY_PID)

\* getZpayConfig throws: !pid || !key || !baseUrl
ZpayConfigMissing(e) ==
  Falsy(e.ZPAY_PID) \/ Falsy(e.ZPAY_KEY) \/ Falsy(e.NEXT_PUBLIC_BASE_URL)

\* createServerAdminClient throws: !supabaseUrl || !serviceRoleKey
SupabaseConfigMissing(e) ==
  Falsy(e.NEXT_PUBLIC_SUPABASE_URL) \/ Falsy(e.SUPABASE_SERVICE_ROLE_KEY)

\* getOpenAIClient throws: !apiKey
OpenAIKeyMissing(e) == Falsy(e.DASHSCOPE_API_KEY)

(***************************************************************************)
(* Bounds and input sets                                                   *)
(***************************************************************************)
\* handlers that may be suspended at an await at the same time
MaxInflight == 2

\* AI calls counted per order number when payment is not enforced
MaxAiCalls == 3

\* local times at which generateOrderNo is called
Dates == { [year |-> 2026, month |-> 1, date |-> 19, hours |-> 12, minutes |-> 0, seconds |-> 0] }

\* values of Math.floor(Math.random() * 900)
RandomDraws == {23, 899}

OrderNos == { generateOrderNo(d, u) : d \in Dates, u \in RandomDraws }

Uids == {"u1"}

\* pay_type of a checkout body; Undefined: the field is absent
CheckoutPayTypes == {"alipay", "wxpay", "paypal", Null, Undefined}

\* provider notifications tried: the amount as checkout sent it, the same
\* amount written differently, and another amount, each with its trade_no
\* and the payment method the provider reports
Payments == { <<"0.50", "T1", "wxpay">>, <<"5e-1", "T2", "alipay">>, <<"5.00", "T3", "wxpay">> }

Moneys == { pm[1] : pm \in Payments }

TradeNos == { pm[2] : pm \in Payments }

TradeStatuses == {"TRADE_SUCCESS", "TRADE_CLOSED"}

NotifyTypes == { pm[3] : pm \in Payments }

\* an object from its entries, absent fields left out
RECURSIVE Obj(_)
Obj(entries) ==
  IF entries = <<>> THEN <<>>
  ELSE IF Head(entries)[2] = Undefined THEN Obj(Tail(entries))
  ELSE <<Head(entries)>> \o Obj(Tail(entries))

NotifyFields(o, money, ts, tn, ty) ==
  << <<"pid", ZPAY_PID>>, <<"trade_no", tn>>, <<"out_trade_no", o>>, <<"type", ty>>,
     <<"name", PRODUCT_NAME>>, <<"money", money>>, <<"trade_status", ts>> >>

\* sign fields tried with a notification: the provider's signature, a
\* signature made with another key, an empty one and none
SignChoices(fields) ==
  { generateSign(fields, ZPAY_KEY), generateSign(fields, "guess"), "", Undefined }

\* req.query of the webhook requests
WebhookRequests ==
  UNION { { Obj(f \o << <<"sign", sg>>, <<"sign_type", "MD5">> >>) : sg \in SignChoices(f) } :
            f \in { NotifyFields(t[1], t[2][1], t[3], t[2][2], t[2][3]) :
                      t \in OrderNos \X Payments \X TradeStatuses } }

\* verifySign(params, key) of the webhook, evaluated once for each request
SignVerified == { params \in WebhookRequests : verifySign(params, ZPAY_KEY) }

\* verifySign(params, key), looked up where it was evaluated before
SignCheckPasses(params) ==
  IF params \in WebhookRequests THEN params \in SignVerified
  ELSE verifySign(params, ZPAY_KEY)

\* req.body of the checkout requests; a uid may be absent or empty
CheckoutRequests ==
  { Obj(<< <<"uid", uid>>, <<"pay_type", pt>> >>) :
      <<uid, pt>> \in (Uids \cup {Undefined, ""}) \X CheckoutPayTypes }

\* req.query of the status polls
StatusRequests == { Obj(<< <<"out_trade_no", o>> >>) : o \in OrderNos \cup {Undefined} }

Images == {"data:image/png;base64,AAAA", Undefined}

\* req.body of the analyze requests
AnalyzeRequests ==
  { Obj(<< <<"image", img>>, <<"out_trade_no", o>> >>) :
      <<img, o>> \in Images \X (OrderNos \cup {Undefined}) }

\* what the AI call does: answers JSON, answers text without JSON, fails, is aborted
AiOutcomes == {"json", "garbage", "throw", "abort"}

(***************************************************************************)
(* State                                                                   *)
(***************************************************************************)
VARIABLES
  orders,               \* zpay_transactions: out_trade_no -> row
  inflight,             \* bag of the handlers suspended at an await
  res,                  \* the response sent last, with the handler's log line
  paidTransitions,      \* per order: updates that moved it pending -> paid
  analyzedTransitions,  \* per order: updates that moved it paid -> analyzed
  aiCalls,              \* per order number: AI calls started for a request naming it
  env,                  \* process.env of the deployment
  callArgs,             \* zpay.mjs: the argument of a call of a library function
  callResult,           \* zpay.mjs: what the call returned
  client,               \* Index: appState, previewUrl, result, errorMsg, outTradeNo
  browser,              \* window.location.search, the two sessionStorage items, page loads
  pending,              \* bag of the page's callbacks suspended at a fetch
  pollRuns,             \* per order: calls of runAnalysis made by the polling callbacks
  cancelled             \* the orders whose waiting payment the user cancelled

\* the state of the page
clientVars == <<client, browser, pending, pollRuns, cancelled>>

vars == <<orders, inflight, res, paidTransitions, analyzedTransitions, aiCalls, env, callArgs, callResult, clientVars>>

\* app.mjs: whether this deployment enforces payment
PAYMENT_REQUIRED == PaymentRequired(env)

Statuses == {"pending", "paid", "analyzed"}

\* a row created as paid
NewRowPaid(uid, amount, pay_type) ==
  [uid |-> uid, amount |-> amount, pay_type |-> pay_type, status |-> "paid",
   trade_no |-> Null, trade_status |-> Null]

\* a row created with a provider status text
NewRowTraded(uid, amount, pay_type) ==
  [uid |-> uid, amount |-> amount, pay_type |-> pay_type, status |-> "pending",
   trade_no |-> Null, trade_status |-> "WAIT_BUYER_PAY"]

\* a row as the insert of checkout creates it (column defaults filled in)
NewRow(uid, amount, pay_type) ==
  [uid |-> uid, amount |-> amount, pay_type |-> pay_type, status |-> "pending",
   trade_no |-> Null, trade_status |-> Null]

Response(kind, status, body, log) ==
  [kind |-> kind, status |-> status, body |-> body, log |-> log]

Text(t) == [text |-> t]

Failure(msg) == [success |-> FALSE, error |-> msg]

NoResponse == Response("none", 0, Text(""), "")

\* the local variables of a handler that are alive across its awaits
Handler(h, pc, o, tn, ts, ty) ==
  [h |-> h, pc |-> pc, out_trade_no |-> o, trade_no |-> tn, trade_status |-> ts, type |-> ty]

NoHandler == Handler("none", "", Undefined, Undefined, Undefined, Undefined)

\* no library call has returned
NoResult == [fn |-> "none", value |-> ""]

\* a handler either answers or is suspended at its next await
Answer(r) == [answered |-> TRUE, res |-> r, h |-> NoHandler]

Await(h) == [answered |-> FALSE, res |-> NoResponse, h |-> h]

Suspend(h) == inflight (+) SetToBag({h})

Resume(h) == inflight (-) SetToBag({h})

\* the values of useState at the first render
InitialState ==
  [appState |-> "idle", previewUrl |-> Null, result |-> Null, errorMsg |-> "", outTradeNo |-> Null]

\* the page opened without query string in a fresh session
ClientStart ==
  /\ client = InitialState
  /\ browser = [search |-> <<>>, trade |-> Null, image |-> Null]
  /\ pending = EmptyBag
  /\ pollRuns = [o \in OrderNos |-> 0]
  /\ cancelled = {}

Init ==
  /\ ClientStart
  /\ orders = <<>>
  /\ inflight = EmptyBag
  /\ res = NoResponse
  /\ paidTransitions = [o \in OrderNos |-> 0]
  /\ analyzedTransitions = [o \in OrderNos |-> 0]
  /\ aiCalls = [o \in OrderNos \cup {Undefined} |-> 0]
  /\ env = FullEnv
  /\ callArgs = <<>>
  /\ callResult = NoResult

(***************************************************************************)
(* POST /api/checkout/providers/zpay/url                                   *)
(***************************************************************************)
\* the parameters of the payment page, signed
PayUrl(out_trade_no, pay_type) ==
  LET params == << <<"pid", ZPAY_PID>>, <<"name", PRODUCT_NAME>>, <<"money", ORDER_AMOUNT>>,
                   <<"out_trade_no", out_trade_no>>,
                   <<"notify_url", BASE_URL \o "/api/checkout/providers/zpay/webhook">>,
                   <<"return_url", BASE_URL>>, <<"type", pay_type>> >>
      sign   == generateSign(params, ZPAY_KEY)
  IN [base |-> ZPAY_SUBMIT_URL,
      query |-> params \o << <<"sign", sign>>, <<"sign_type", "MD5">> >>]

\* parseFloat(ORDER_AMOUNT), the amount of the inserted row
OrderAmount == parseFloatStr(ORDER_AMOUNT)

\* the pay types the handler lets through
PayTypes == {"alipay", "wxpay"}

\* the payment page for every order number and every pay type of a request,
\* built once
RECURSIVE PayUrlsOf(_)
PayUrlsOf(S) ==
  IF S = {} THEN <<>>
  ELSE LET t == CHOOSE x \in S : TRUE
       IN (t :> PayUrl(t[1], t[2])) @@ PayUrlsOf(S \ {t})

PayUrls == PayUrlsOf(OrderNos \X (CheckoutPayTypes \ {Undefined}))

MissingUid == Response("checkout", 400, Failure("missing uid"), "")

BadPayType == Response("checkout", 400, Failure("pay_type must be alipay or wxpay"), "")

CreateFailed == Response("checkout", 500, Failure("create order failed"), "DB insert error")

\* a check of the pay type that lets every value through
ValidPayTypeAny(pay_type) == TRUE

\* ["alipay", "wxpay"].includes(pay_type)
ValidPayType(pay_type) == pay_type \in PayTypes

\* an insert that replaces the row of an order number that is taken
InsertOrderOverwrite(rows, o, row) ==
  [error |-> FALSE, rows |-> [x \in DOMAIN rows \cup {o} |-> IF x = o THEN row ELSE rows[x]]]

\* INSERT INTO zpay_transactions: the UNIQUE constraint on out_trade_no makes
\* the insert of a number that is taken fail
InsertOrder(rows, o, row) ==
  IF o \in DOMAIN rows THEN [error |-> TRUE, rows |-> rows]
  ELSE [error |-> FALSE, rows |-> rows @@ (o :> row)]

\* the handler for the order number that generateOrderNo returned: the store
\* it leaves and its answer
CheckoutRun(body, out_trade_no, rows) ==
  LET uid      == Get(body, "uid")
      pay_type == IF Get(body, "pay_type") = Undefined THEN "alipay" ELSE Get(body, "pay_type")
      ins      == InsertOrder(rows, out_trade_no, NewRow(uid, OrderAmount, pay_type))
  IN IF Falsy(uid) THEN [rows |-> rows, res |-> MissingUid]
     ELSE IF ~ValidPayType(pay_type) THEN [rows |-> rows, res |-> BadPayType]
     ELSE IF ins.error THEN [rows |-> rows, res |-> CreateFailed]
     ELSE [rows |-> ins.rows,
           res  |-> Response("checkout", 200,
                             [success |-> TRUE, url |-> PayUrls[<<out_trade_no, pay_type>>],
                              out_trade_no |-> out_trade_no],
                             "order created")]

\* what the catch block answers when getZpayConfig or
\* createServerAdminClient throws: 500 with the message of the error
ZpayConfigError == Response("checkout", 500, Failure("zpay configuration missing"), "zpay/url error")

SupabaseConfigError(kind) ==
  Response(kind, 500, Failure("supabase configuration missing"), kind \o " error")

\* the handler in the deployment e: after the checks of the body it reads
\* the zpay configuration, then creates the supabase client
CheckoutIn(e, body, out_trade_no, rows) ==
  LET c == CheckoutRun(body, out_trade_no, rows)
  IN IF c.res \in {MissingUid, BadPayType} THEN c
     ELSE IF ZpayConfigMissing(e) THEN [rows |-> rows, res |-> ZpayConfigError]
     ELSE IF SupabaseConfigMissing(e) THEN [rows |-> rows, res |-> SupabaseConfigError("checkout")]
     ELSE c

Checkout(body, d, u) ==
  LET c == CheckoutIn(env, body, generateOrderNo(d, u), orders)
  IN /\ orders' = c.rows
     /\ res' = c.res
     /\ UNCHANGED <<inflight, paidTransitions, analyzedTransitions, aiCalls, env, callArgs, callResult, clientVars>>

(***************************************************************************)
(* GET /api/checkout/providers/zpay/webhook                                *)
(***************************************************************************)
SignError == Response("webhook", 400, Text("sign error"), "sign check failed")

\* a non-success provider status answered as a failure
SkippedStatusRefused == Response("webhook", 400, Text("fail"), "not a success status, skipped")

SkippedStatus == Response("webhook", 200, Text("success"), "not a success status, skipped")

\* an unknown order acknowledged to the provider
OrderNotFoundAcknowledged == Response("webhook", 200, Text("success"), "order does not exist")

OrderNotFound == Response("webhook", 404, Text("order not found"), "order does not exist")

\* a duplicate answered as a conflict
DuplicateRefused == Response("webhook", 409, Text("duplicate"), "already processed, duplicate skipped")

DuplicateSkipped == Response("webhook", 200, Text("success"), "already processed, duplicate skipped")

AmountMismatchError == Response("webhook", 400, Text("amount mismatch"), "amount mismatch")

PaymentRecorded == Response("webhook", 200, Text("success"), "payment recorded")

UpdateFailed == Response("webhook", 500, Text("error"), "update of the order failed")

KeyNotConfigured == Response("webhook", 500, Text("error"), "ZPAY_KEY not configured")

WebhookThrew == Response("webhook", 500, Text("error"), "webhook error")

\* the duplicate check that recognises consumed orders only
AlreadyProcessedWhenAnalyzed(order) == order.status = "analyzed"

\* order.status !== "pending"
AlreadyProcessed(order) == order.status # "pending"

\* no amount check
AmountMismatchNever(money, amount) == FALSE

\* the amount check on the texts
AmountMismatchText(money, amount) == money # DecimalText(amount)

\* parseFloat(money) !== parseFloat(order.amount)
AmountMismatch(money, amount) == NumNotEqual(parseFloatStr(money), parseFloatNum(amount))

\* the amounts a row of the checked state spaces holds: the one checkout
\* inserts, and another value
StoredAmounts == {OrderAmount, parseFloatStr("5.00")}

\* the amounts of a notification and of a row for which the comparison
\* finds a difference, evaluated once
AmountMismatches ==
  { <<t[1], t[2]>> : t \in { u \in Moneys \X StoredAmounts : AmountMismatch(u[1], u[2]) } }

\* the comparison, looked up where it was evaluated before
AmountCheckFails(money, amount) ==
  IF money \in Moneys /\ amount \in StoredAmounts THEN <<money, amount>> \in AmountMismatches
  ELSE AmountMismatch(money, amount)

\* the order looked up before the signature is verified
WebhookChecksLookupFirst(params, rows) ==
  LET money        == Get(params, "money")
      out_trade_no == Get(params, "out_trade_no")
      trade_no     == Get(params, "trade_no")
      trade_status == Get(params, "trade_status")
      type         == Get(params, "type")
  IN IF out_trade_no \notin DOMAIN rows THEN Answer(OrderNotFound)
     ELSE IF ~SignCheckPasses(params) THEN Answer(SignError)
     ELSE IF trade_status # "TRADE_SUCCESS" THEN Answer(SkippedStatus)
     ELSE IF AlreadyProcessed(rows[out_trade_no]) THEN Answer(DuplicateSkipped)
     ELSE IF AmountCheckFails(money, rows[out_trade_no].amount) THEN Answer(AmountMismatchError)
     ELSE Await(Handler("webhook", "update", out_trade_no, trade_no, trade_status, type))

\* from the request to the result of the select: signature, provider
\* status, lookup, duplicate and amount; a notification that passes them
\* awaits its update
WebhookChecks(params, rows) ==
  LET money        == Get(params, "money")
      out_trade_no == Get(params, "out_trade_no")
      trade_no     == Get(params, "trade_no")
      trade_status == Get(params, "trade_status")
      type         == Get(params, "type")
  IN IF ~SignCheckPasses(params) THEN Answer(SignError)
     ELSE IF trade_status # "TRADE_SUCCESS" THEN Answer(SkippedStatus)
     ELSE IF out_trade_no \notin DOMAIN rows THEN Answer(OrderNotFound)
     ELSE IF AlreadyProcessed(rows[out_trade_no]) THEN Answer(DuplicateSkipped)
     ELSE IF AmountCheckFails(money, rows[out_trade_no].amount) THEN Answer(AmountMismatchError)
     ELSE Await(Handler("webhook", "update", out_trade_no, trade_no, trade_status, type))

\* the handler in the deployment e: without ZPAY_KEY it answers 500 before
\* anything else; the supabase client is created after the signature and
\* the provider status were checked, and the catch block answers 500
WebhookChecksIn(e, params, rows) ==
  LET c == WebhookChecks(params, rows)
  IN IF Falsy(e.ZPAY_KEY) THEN Answer(KeyNotConfigured)
     ELSE IF c.answered /\ c.res \in {SignError, SkippedStatus} THEN c
     ELSE IF SupabaseConfigMissing(e) THEN Answer(WebhookThrew)
     ELSE c

WebhookReceive(params) ==
  LET c == WebhookChecksIn(env, params, orders)
  IN /\ BagCardinality(inflight) < MaxInflight
     /\ IF c.answered
          THEN res' = c.res /\ inflight' = inflight
          ELSE res' = res /\ inflight' = Suspend(c.h)
     /\ UNCHANGED <<orders, paidTransitions, analyzedTransitions, aiCalls, env, callArgs, callResult, clientVars>>

\* the update without its status condition
UpdateToPaidUnconditional(rows, o, trade_no, trade_status, type) ==
  IF o \in DOMAIN rows
  THEN [rows EXCEPT ![o].status = "paid", ![o].trade_no = trade_no,
                    ![o].trade_status = trade_status, ![o].pay_type = type]
  ELSE rows

\* the update with its condition on the order number only, keeping a status
\* that is already further on
UpdateToPaidAgain(rows, o, trade_no, trade_status, type) ==
  IF o \in DOMAIN rows /\ rows[o].status # "analyzed"
  THEN [rows EXCEPT ![o].status = "paid", ![o].trade_no = trade_no,
                    ![o].trade_status = trade_status, ![o].pay_type = type]
  ELSE rows

\* two statements: the status under its condition, the provider fields on
\* the order number alone
UpdateToPaidFieldsApart(rows, o, trade_no, trade_status, type) ==
  IF o \in DOMAIN rows
  THEN [rows EXCEPT ![o].status = IF @ = "pending" THEN "paid" ELSE @,
                    ![o].trade_no = trade_no,
                    ![o].trade_status = trade_status, ![o].pay_type = type]
  ELSE rows

\* the update with its condition on the wrong status
UpdateToPaidWhenPaid(rows, o, trade_no, trade_status, type) ==
  IF o \in DOMAIN rows /\ rows[o].status = "paid"
  THEN [rows EXCEPT ![o].status = "paid", ![o].trade_no = trade_no,
                    ![o].trade_status = trade_status, ![o].pay_type = type]
  ELSE rows

\* UPDATE ... SET status = 'paid', trade_no, trade_status, pay_type
\*   WHERE out_trade_no = o AND status = 'pending'
UpdateToPaid(rows, o, trade_no, trade_status, type) ==
  IF o \in DOMAIN rows /\ rows[o].status = "pending"
  THEN [rows EXCEPT ![o].status = "paid", ![o].trade_no = trade_no,
                    ![o].trade_status = trade_status, ![o].pay_type = type]
  ELSE rows

\* the conditional update and the answer that follows it
WebhookUpdateStep(h, rows) ==
  [rows |-> UpdateToPaid(rows, h.out_trade_no, h.trade_no, h.trade_status, h.type),
   res  |-> PaymentRecorded]

WebhookUpdate(h) ==
  LET u == WebhookUpdateStep(h, orders)
  IN /\ BagIn(h, inflight) /\ h.h = "webhook" /\ h.pc = "update"
     /\ orders' = u.rows
     /\ paidTransitions' =
          [paidTransitions EXCEPT ![h.out_trade_no] = @ + (IF u.rows # orders THEN 1 ELSE 0)]
     /\ inflight' = Resume(h)
     /\ res' = u.res
     /\ UNCHANGED <<analyzedTransitions, aiCalls, env, callArgs, callResult, clientVars>>

\* the whole handler when nothing else runs between its select and its update
WebhookRun(params, rows) ==
  LET c == WebhookChecks(params, rows)
  IN IF c.answered THEN [rows |-> rows, res |-> c.res] ELSE WebhookUpdateStep(c.h, rows)

\* the answer of express to a request that no route matches
NoRoute == Response("express", 404, Text("Cannot POST /api/checkout/providers/zpay/webhook"), "")

\* POST /api/checkout/providers/zpay/webhook: the router registers the
\* webhook for GET only, so no handler runs
WebhookPostRun(params, rows) == [rows |-> rows, res |-> NoRoute]

WebhookPost(params) ==
  /\ orders' = WebhookPostRun(params, orders).rows
  /\ res' = WebhookPostRun(params, orders).res
  /\ UNCHANGED <<inflight, paidTransitions, analyzedTransitions, aiCalls, env, callArgs, callResult, clientVars>>

(***************************************************************************)
(* GET /api/checkout/providers/zpay/status                                 *)
(***************************************************************************)
StatusNotFound == Response("status", 404, Failure("order does not exist"), "")

MissingOrderNo == Response("status", 400, Failure("missing out_trade_no"), "")

StatusFound(row) ==
  Response("status", 200, [success |-> TRUE, status |-> row.status, uid |-> row.uid], "")

\* a select without its filter on out_trade_no: some row of the table
StatusRunAnyOrder(query, rows) ==
  [rows |-> rows,
   res  |-> IF Falsy(Get(query, "out_trade_no")) THEN MissingOrderNo
            ELSE IF DOMAIN rows = {} THEN StatusNotFound
            ELSE StatusFound(rows[CHOOSE o \in DOMAIN rows : TRUE])]

\* the whole handler: the table after it and its response
StatusRun(query, rows) ==
  LET out_trade_no == Get(query, "out_trade_no")
  IN [rows |-> rows,
      res  |-> IF Falsy(out_trade_no) THEN MissingOrderNo
               ELSE IF out_trade_no \notin DOMAIN rows THEN StatusNotFound
               ELSE StatusFound(rows[out_trade_no])]

\* the handler in the deployment e: the supabase client is created after
\* the check of the query
StatusIn(e, query, rows) ==
  IF ~Falsy(Get(query, "out_trade_no")) /\ SupabaseConfigMissing(e)
  THEN [rows |-> rows, res |-> SupabaseConfigError("status")]
  ELSE StatusRun(query, rows)

StatusPoll(query) ==
  /\ orders' = StatusIn(env, query, orders).rows
  /\ res' = StatusIn(env, query, orders).res
  /\ UNCHANGED <<inflight, paidTransitions, analyzedTransitions, aiCalls, env, callArgs, callResult, clientVars>>

(***************************************************************************)
(* POST /api/analyze                                                       *)
(***************************************************************************)
AlreadyConsumed == Response("analyze", 409, Failure("order already used"), "")

MissingImage == Response("analyze", 400, Failure("missing image"), "")

PayFirst == Response("analyze", 402, Failure("pay before analysis"), "")

OrderUnknown == Response("analyze", 404, Failure("order does not exist"), "")

\* an unpaid order answered as a conflict
OrderNotPaidConflict == Response("analyze", 409, Failure("order not paid"), "")

OrderNotPaid == Response("analyze", 402, Failure("order not paid"), "")

AnalyzeUpdateFailed == Response("analyze", 500, Failure("server error"), "update of the order status failed")

AnalyzeHandler(pc, out_trade_no) ==
  Handler("analyze", pc, out_trade_no, Undefined, Undefined, Undefined)

\* what the catch block answers when getOpenAIClient throws
OpenAIKeyError ==
  Response("analyze", 500, Failure("DASHSCOPE_API_KEY not configured"), "analyze error")

\* from the gate to the AI call in the deployment e: getOpenAIClient throws
\* without its key, and the call is started with it
AiCall(e, out_trade_no) ==
  IF OpenAIKeyMissing(e) THEN Answer(OpenAIKeyError)
  ELSE Await(AnalyzeHandler("ai", out_trade_no))

\* from the request to the result of the select in the deployment e: the
\* payment is enforced when PAYMENT_REQUIRED is true, and the supabase client
\* is then created after the checks of the body; without enforcement the
\* handler goes straight on to the AI call
AnalyzeChecks(e, body, rows) ==
  LET image        == Get(body, "image")
      out_trade_no == Get(body, "out_trade_no")
  IN IF Falsy(image) THEN Answer(MissingImage)
     ELSE IF ~PaymentRequired(e) THEN AiCall(e, out_trade_no)
     ELSE IF Falsy(out_trade_no) THEN Answer(PayFirst)
     ELSE IF SupabaseConfigMissing(e) THEN Answer(SupabaseConfigError("analyze"))
     ELSE IF out_trade_no \notin DOMAIN rows THEN Answer(OrderUnknown)
     ELSE IF rows[out_trade_no].status = "analyzed" THEN Answer(AlreadyConsumed)
     ELSE IF rows[out_trade_no].status # "paid" THEN Answer(OrderNotPaid)
     ELSE Await(AnalyzeHandler("update", out_trade_no))

AnalyzeReceive(body) ==
  LET c == AnalyzeChecks(env, body, orders)
      o == c.h.out_trade_no
  IN /\ BagCardinality(inflight) < MaxInflight
     /\ IF c.answered
          THEN res' = c.res /\ UNCHANGED <<inflight, aiCalls>>
        ELSE IF c.h.pc = "ai"
          \* no payment gate: the AI call is started at once
          THEN /\ aiCalls[o] < MaxAiCalls
               /\ aiCalls' = [aiCalls EXCEPT ![o] = @ + 1]
               /\ inflight' = Suspend(c.h)
               /\ res' = res
        ELSE /\ inflight' = Suspend(c.h)
             /\ UNCHANGED <<res, aiCalls>>
     /\ UNCHANGED <<orders, paidTransitions, analyzedTransitions, env, callArgs, callResult, clientVars>>

\* an update that matches no row
UpdateToAnalyzedNoRow(rows, o) == rows

\* the update without its status condition
UpdateToAnalyzedUnconditional(rows, o) ==
  IF o \in DOMAIN rows THEN [rows EXCEPT ![o].status = "analyzed"] ELSE rows

\* a consumed order removed from the table
UpdateToAnalyzedDelete(rows, o) ==
  IF o \in DOMAIN rows /\ rows[o].status = "paid"
  THEN [x \in DOMAIN rows \ {o} |-> rows[x]]
  ELSE rows

\* the update without its condition on the order number
UpdateToAnalyzedEveryPaid(rows, o) ==
  [x \in DOMAIN rows |-> IF rows[x].status = "paid" THEN [rows[x] EXCEPT !.status = "analyzed"] ELSE rows[x]]

\* UPDATE ... SET status = 'analyzed' WHERE out_trade_no = o AND status = 'paid'
UpdateToAnalyzed(rows, o) ==
  IF o \in DOMAIN rows /\ rows[o].status = "paid"
  THEN [rows EXCEPT ![o].status = "analyzed"]
  ELSE rows

\* the handler going on to the AI call with its update still to be made
AnalyzeUpdateStepDeferred(e, h, rows) ==
  [rows |-> rows, answered |-> FALSE, res |-> NoResponse, h |-> [h EXCEPT !.pc = "ai"]]

\* the conditional update in the deployment e; the handler looks at
\* updateError only and goes on to the AI call
AnalyzeUpdateStep(e, h, rows) ==
  LET next == AiCall(e, h.out_trade_no)
  IN [rows |-> UpdateToAnalyzed(rows, h.out_trade_no),
      answered |-> next.answered, res |-> next.res, h |-> next.h]

AnalyzeUpdate(h) ==
  LET u == AnalyzeUpdateStep(env, h, orders)
  IN /\ BagIn(h, inflight) /\ h.h = "analyze" /\ h.pc = "update"
     /\ orders' = u.rows
     /\ analyzedTransitions' =
          [analyzedTransitions EXCEPT ![h.out_trade_no] = @ + (IF u.rows # orders THEN 1 ELSE 0)]
     /\ IF u.answered
          THEN /\ inflight' = Resume(h)
               /\ res' = u.res
               /\ UNCHANGED aiCalls
          ELSE /\ inflight' = Resume(h) (+) SetToBag({u.h})
               /\ aiCalls' = [aiCalls EXCEPT ![h.out_trade_no] = @ + 1]
               /\ UNCHANGED res
     /\ UNCHANGED <<paidTransitions, env, callArgs, callResult, clientVars>>

\* res.json({ success: true, data: safeResult }), or the catch block: 504
\* for an aborted call, 500 for a call that threw or an answer that is not
\* JSON
AiResponse(outcome) ==
  CASE outcome = "json"    -> Response("analyze", 200, [success |-> TRUE, data |-> "safeResult"], "")
    [] outcome = "garbage" -> Response("analyze", 500, Failure("AI answer is not JSON"), "analyze error")
    [] outcome = "throw"   -> Response("analyze", 500, Failure("AI call failed"), "analyze error")
    [] outcome = "abort"   -> Response("analyze", 504, Failure("AI analysis timed out"), "analyze error")

\* a failed AI call hands the order back as paid
AnalyzeRespondStepRestore(h, outcome, rows) ==
  [rows |-> IF outcome # "json" /\ h.out_trade_no \in DOMAIN rows
            THEN [rows EXCEPT ![h.out_trade_no].status = "paid"]
            ELSE rows,
   res  |-> AiResponse(outcome)]

\* from the end of the AI call to the answer: no statement on the store,
\* neither on the way to res.json nor in the catch block
AnalyzeRespondStep(h, outcome, rows) == [rows |-> rows, res |-> AiResponse(outcome)]

\* the AI call ends and the handler answers
AnalyzeRespond(h, outcome) ==
  LET s == AnalyzeRespondStep(h, outcome, orders)
  IN /\ BagIn(h, inflight) /\ h.h = "analyze" /\ h.pc = "ai"
     /\ inflight' = Resume(h)
     /\ orders' = s.rows
     /\ res' = s.res
     /\ UNCHANGED <<paidTransitions, analyzedTransitions, aiCalls, env, callArgs, callResult, clientVars>>

\* the handler after its update: at its AI call, or answered without one
Started(u) == [rows |-> u.rows, ai |-> ~u.answered, res |-> u.res]

\* the handler up to its AI call when nothing else runs between its select
\* and its update: the store it leaves, and its answer or its AI call
AnalyzeRun(e, body, rows) ==
  LET c == AnalyzeChecks(e, body, rows)
  IN IF c.answered THEN [rows |-> rows, ai |-> FALSE, res |-> c.res]
     ELSE IF c.h.pc = "ai" THEN [rows |-> rows, ai |-> TRUE, res |-> NoResponse]
     ELSE Started(AnalyzeUpdateStep(e, c.h, rows))

(***************************************************************************)
(* Storage failures: a statement of the supabase client that comes back    *)
(* with an error and has changed nothing                                   *)
(***************************************************************************)
\* what a select that failed hands to the handler: no row (the handlers test
\* queryError || !order)
NoRows == <<>>

\* the webhook whose select fails
WebhookLookupFails(params) ==
  /\ ~Falsy(env.ZPAY_KEY) /\ SignCheckPasses(params)
  /\ Get(params, "trade_status") = "TRADE_SUCCESS"
  /\ ~SupabaseConfigMissing(env)
  /\ res' = WebhookChecksIn(env, params, NoRows).res
  /\ UNCHANGED <<orders, inflight, paidTransitions, analyzedTransitions, aiCalls, env, callArgs, callResult, clientVars>>

\* the webhook whose update fails
WebhookUpdateFails(h) ==
  /\ BagIn(h, inflight) /\ h.h = "webhook" /\ h.pc = "update"
  /\ inflight' = Resume(h)
  /\ res' = UpdateFailed
  /\ UNCHANGED <<orders, paidTransitions, analyzedTransitions, aiCalls, env, callArgs, callResult, clientVars>>

\* the whole webhook handler run alone in the deployment e, with the
\* outcome of its two statements
WebhookRunFailing(e, params, rows, queryError, updateError) ==
  LET c == WebhookChecksIn(e, params, IF queryError THEN NoRows ELSE rows)
  IN IF c.answered THEN [rows |-> rows, res |-> c.res]
     ELSE IF updateError THEN [rows |-> rows, res |-> UpdateFailed]
     ELSE WebhookUpdateStep(c.h, rows)

\* the analyze request whose select fails
AnalyzeLookupFails(body) ==
  /\ PAYMENT_REQUIRED /\ ~SupabaseConfigMissing(env)
  /\ ~Falsy(Get(body, "image")) /\ ~Falsy(Get(body, "out_trade_no"))
  /\ res' = AnalyzeChecks(env, body, NoRows).res
  /\ UNCHANGED <<orders, inflight, paidTransitions, analyzedTransitions, aiCalls, env, callArgs, callResult, clientVars>>

\* the analyze request whose update fails: answered without an AI call
AnalyzeUpdateFails(h) ==
  /\ BagIn(h, inflight) /\ h.h = "analyze" /\ h.pc = "update"
  /\ inflight' = Resume(h)
  /\ res' = AnalyzeUpdateFailed
  /\ UNCHANGED <<orders, paidTransitions, analyzedTransitions, aiCalls, env, callArgs, callResult, clientVars>>

\* the handler going on to the AI call although its update failed
AnalyzeRunFailingIgnored(e, body, rows, queryError, updateError) ==
  LET c == AnalyzeChecks(e, body, IF queryError THEN NoRows ELSE rows)
  IN IF c.answered THEN [rows |-> rows, ai |-> FALSE, res |-> c.res]
     ELSE IF c.h.pc = "ai" \/ updateError THEN [rows |-> rows, ai |-> TRUE, res |-> NoResponse]
     ELSE Started(AnalyzeUpdateStep(e, c.h, rows))

\* the analyze handler up to its AI call, run alone, with the outcome of
\* its two statements
AnalyzeRunFailing(e, body, rows, queryError, updateError) ==
  LET c == AnalyzeChecks(e, body, IF queryError THEN NoRows ELSE rows)
  IN IF c.answered THEN [rows |-> rows, ai |-> FALSE, res |-> c.res]
     ELSE IF c.h.pc = "ai" THEN [rows |-> rows, ai |-> TRUE, res |-> NoResponse]
     ELSE IF updateError THEN [rows |-> rows, ai |-> FALSE, res |-> AnalyzeUpdateFailed]
     ELSE Started(AnalyzeUpdateStep(e, c.h, rows))

\* the checkout requests that pass the validation and reach the insert
InsertingCheckouts ==
  { body \in CheckoutRequests : \A o \in OrderNos : CheckoutRun(body, o, NoRows).res.status = 200 }

\* the checkout whose insert fails: the body has passed the two checks and
\* the configuration is read before the insert
CheckoutInsertFails(body) ==
  /\ ~Falsy(Get(body, "uid"))
  /\ ValidPayType(IF Get(body, "pay_type") = Undefined THEN "alipay" ELSE Get(body, "pay_type"))
  /\ ~ZpayConfigMissing(env) /\ ~SupabaseConfigMissing(env)
  /\ res' = CreateFailed
  /\ UNCHANGED <<orders, inflight, paidTransitions, analyzedTransitions, aiCalls, env, callArgs, callResult, clientVars>>

\* the status poll whose select fails
StatusLookupFails(query) ==
  /\ ~Falsy(Get(query, "out_trade_no")) /\ ~SupabaseConfigMissing(env)
  /\ res' = StatusNotFound
  /\ UNCHANGED <<orders, inflight, paidTransitions, analyzedTransitions, aiCalls, env, callArgs, callResult, clientVars>>

\* the handlers that can be suspended
Handlers ==
  { Handler("webhook", "update", t[1], t[2][2], "TRADE_SUCCESS", t[2][3]) :
      t \in OrderNos \X Payments }
  \cup { AnalyzeHandler(pc, o) : <<pc, o>> \in {"update", "ai"} \X (OrderNos \cup {Undefined}) }

Next ==
  \/ \E body \in CheckoutRequests, d \in Dates, u \in RandomDraws : Checkout(body, d, u)
  \/ \E params \in WebhookRequests : WebhookReceive(params)
  \/ \E h \in Handlers : WebhookUpdate(h)
  \/ \E params \in WebhookRequests : WebhookPost(params)
  \/ \E query \in StatusRequests : StatusPoll(query)
  \/ \E body \in AnalyzeRequests : AnalyzeReceive(body)
  \/ \E h \in Handlers : AnalyzeUpdate(h)
  \/ \E h \in Handlers, outcome \in AiOutcomes : AnalyzeRespond(h, outcome)

Spec == Init /\ [][Next]_vars

\* the steps of the program when statements on the store may fail
StorageFailure ==
  \/ \E params \in WebhookRequests : WebhookLookupFails(params)
  \/ \E h \in Handlers : WebhookUpdateFails(h)
  \/ \E body \in AnalyzeRequests : AnalyzeLookupFails(body)
  \/ \E h \in Handlers : AnalyzeUpdateFails(h)
  \/ \E body \in CheckoutRequests : CheckoutInsertFails(body)
  \/ \E query \in StatusRequests : StatusLookupFails(query)

FaultNext == Next \/ StorageFailure

FaultSpec == Init /\ [][FaultNext]_vars

\* a deployment with any of its environment variables set or missing
ConfigInit ==
  /\ ClientStart
  /\ orders = <<>>
  /\ inflight = EmptyBag
  /\ res = NoResponse
  /\ paidTransitions = [o \in OrderNos |-> 0]
  /\ analyzedTransitions = [o \in OrderNos |-> 0]
  /\ aiCalls = [o \in OrderNos \cup {Undefined} |-> 0]
  /\ env \in Envs
  /\ callArgs = <<>>
  /\ callResult = NoResult

\* the express app in each deployment, on a store whose statements may fail
DeployedFaultSpec == ConfigInit /\ [][FaultNext]_vars

(***************************************************************************)
(* Calls of the functions of server/lib/zpay.mjs on their own              *)
(***************************************************************************)
MaxParams == 3

\* keys of a parameter object: the two reserved ones, one that starts like
\* them, one that starts with a capital
ParamKeys == {"sign", "sign_type", "signs", "money", "Name"}

\* values of a parameter: a text, the empty text, null and undefined
ParamValues == {"0.50", "", Null, Undefined}

\* Object.entries of the parameter objects: up to MaxParams entries with
\* different keys, in every insertion order
ParamMappings ==
  UNION { { e \in [1..n -> ParamKeys \X ParamValues] :
              \A i, j \in 1..n : i # j => e[i][1] # e[j][1] } : n \in 0..MaxParams }

\* secrets a signature is made with or checked against
Secrets == {ZPAY_KEY, "guess"}

\* { ...params, [key]: value }: an own key keeps its place, a new one goes last
With(params, key, value) ==
  IF \E i \in 1..Len(params) : params[i][1] = key
  THEN [i \in 1..Len(params) |-> IF params[i][1] = key THEN <<key, value>> ELSE params[i]]
  ELSE Append(params, <<key, value>>)

\* { ...params, sign: generateSign(params, key), sign_type: "MD5" }
Signed(params, key) == With(With(params, "sign", generateSign(params, key)), "sign_type", "MD5")

\* parameter objects as they are before signing: no reserved key
UnsignedMappings ==
  { q \in ParamMappings : \A i \in 1..Len(q) : q[i][1] \notin {"sign", "sign_type"} }

\* for each secret, the parameter objects signed with it
SignedMappings == [k \in Secrets |-> { Signed(q, k) : q \in UnsignedMappings }]

\* values put in the place of a signed value: another spelling of the
\* amount, a value that reads like two fields, the empty text, null
TamperValues == {"0.5", "0.50&signs=0.50", "", Null}

\* the entries of a parameter object that take part in the signature
SignedIndexes(params) ==
  { i \in 1..Len(params) : FilterSigned(<<params[i]>>) # <<>> }

\* for each secret, the objects signed with it and then changed in the
\* value of one signed field
TamperedMappings ==
  [k \in Secrets |->
     UNION { { With(s, s[i][1], v) : <<i, v>> \in { t \in SignedIndexes(s) \X TamperValues : t[2] # s[t[1]][2] } }
             : s \in SignedMappings[k] }]

\* the arguments the library functions are called with
LibInputs ==
  ParamMappings \cup UNION { SignedMappings[k] \cup TamperedMappings[k] : k \in Secrets }

BuildSignStringCall ==
  /\ callResult = NoResult
  /\ callResult' = [fn |-> "buildSignString", value |-> buildSignString(callArgs)]
  /\ UNCHANGED <<orders, inflight, res, paidTransitions, analyzedTransitions, aiCalls,
                 env, callArgs, clientVars>>

VerifySignCall(key) ==
  /\ callResult = NoResult
  /\ callResult' = [fn |-> "verifySign", key |-> key, value |-> verifySign(callArgs, key)]
  /\ UNCHANGED <<orders, inflight, res, paidTransitions, analyzedTransitions, aiCalls,
                 env, callArgs, clientVars>>

LibInit ==
  /\ ClientStart
  /\ orders = <<>>
  /\ inflight = EmptyBag
  /\ res = NoResponse
  /\ paidTransitions = [o \in OrderNos |-> 0]
  /\ analyzedTransitions = [o \in OrderNos |-> 0]
  /\ aiCalls = [o \in OrderNos \cup {Undefined} |-> 0]
  /\ env = FullEnv
  /\ callArgs \in LibInputs
  /\ callResult = NoResult

\* local times read by new Date(): around the turn of a year, of a month
\* and of each field from one digit to two
ClockTimes ==
  [year : {2026, 2027}, month : {8, 9}, date : {9, 10}, hours : {9, 10},
   minutes : {0, 59}, seconds : {9, 10}]

\* values of Math.floor(Math.random() * 900) in the calls that are run
LibDraws == {0, 23, 899}

\* generateOrderNo() takes no argument; the call keeps the time it read
\* and the number the call before it returned
GenerateOrderNoCall(d, u) ==
  /\ callArgs = <<>>
  /\ callResult.fn \in {"none", "generateOrderNo"}
  /\ callResult' = [fn |-> "generateOrderNo", d |-> d, u |-> u, value |-> generateOrderNo(d, u),
                    before |-> IF callResult.fn = "none" THEN NoResult
                               ELSE [fn |-> "generateOrderNo", d |-> callResult.d,
                                     value |-> callResult.value]]
  /\ UNCHANGED <<orders, inflight, res, paidTransitions, analyzedTransitions, aiCalls,
                 env, callArgs, clientVars>>

LibNext ==
  \/ BuildSignStringCall
  \/ \E key \in Secrets : VerifySignCall(key)
  \/ \E d \in ClockTimes, u \in LibDraws : GenerateOrderNoCall(d, u)

LibSpec == LibInit /\ [][LibNext]_vars

(***************************************************************************)
(* Properties                                                              *)
(***************************************************************************)
\* the notifications that carry the signature made with the shared secret
ProviderSigned ==
  { params \in WebhookRequests : Get(params, "sign") = generateSign(params, ZPAY_KEY) }

BadlySigned == WebhookRequests \ ProviderSigned

SuccessNotifications ==
  { params \in ProviderSigned : Get(params, "trade_status") = "TRADE_SUCCESS" }

OtherNotifications == ProviderSigned \ SuccessNotifications

\* the provider's notification of a payment of the amount checkout asked for
PaidNotifications == { params \in SuccessNotifications : Get(params, "money") = ORDER_AMOUNT }

SuccessToken == Text("success")

Acknowledged(r) == r.status = 200 /\ r.body = SuccessToken

Refused(r) == r.status >= 400 /\ r.body # SuccessToken

WebhooksInFlight == { h \in BagToSet(inflight) : h.h = "webhook" }

AnalyzeBody(o) == Obj(<< <<"image", "data:image/png;base64,AAAA">>, <<"out_trade_no", o>> >>)

\* C1: of the concurrent analyze requests naming one paid order exactly one
\* passes the gate and starts the AI call; the others are refused with 409
\* and start none.  So no order number ever has more than one AI call
\* started for it.
C1_OneAnalysisPerOrder == \A o \in OrderNos : aiCalls[o] <= 1

\* C2: concurrent deliveries of the valid success notification of a pending
\* order: exactly one conditional update applies pending -> paid (an order
\* is past pending exactly when one update applied, and never two), every
\* delivery is answered with the success token, whether it finds the order
\* already processed or awaits its own update, and after the update of any
\* delivery the order is not pending.
C2_OnePaidTransition ==
  /\ \A o \in OrderNos :
       paidTransitions[o] = IF o \in DOMAIN orders /\ orders[o].status # "pending" THEN 1 ELSE 0
  /\ \A h \in WebhooksInFlight :
       LET u == WebhookUpdateStep(h, orders)
       IN Acknowledged(u.res) /\ u.rows[h.out_trade_no].status \in {"paid", "analyzed"}
  /\ \A params \in PaidNotifications :
       LET c == WebhookChecks(params, orders)
       IN Get(params, "out_trade_no") \in DOMAIN orders /\ c.answered => Acknowledged(c.res)

\* two deliveries raced: one has applied its update and been answered, the
\* other is still waiting for its own
C2_Witness ==
  \E h \in WebhooksInFlight :
    /\ paidTransitions[h.out_trade_no] = 1
    /\ orders[h.out_trade_no].status = "paid"
    /\ res = PaymentRecorded

\* C3: every status is pending, paid or analyzed; a row starts pending, is
\* never removed, and a step that changes its status goes pending -> paid or
\* paid -> analyzed.
C3_StatusForwardOnly ==
  /\ [](\A o \in DOMAIN orders : orders[o].status \in Statuses)
  /\ [][\A o \in DOMAIN orders' :
          IF o \in DOMAIN orders
          THEN \/ orders'[o].status = orders[o].status
               \/ <<orders[o].status, orders'[o].status>> \in {<<"pending", "paid">>, <<"paid", "analyzed">>}
          ELSE orders'[o].status = "pending"]_vars
  /\ [][DOMAIN orders \subseteq DOMAIN orders']_vars

\* one order has gone through both transitions while another is still pending
C3_Witness ==
  \E o1, o2 \in DOMAIN orders :
    /\ orders[o1].status = "analyzed" /\ analyzedTransitions[o1] = 1 /\ paidTransitions[o1] = 1
    /\ orders[o2].status = "pending"

\* C4: on a pending order, run one after the other: the valid success
\* notification moves it to paid and is acknowledged; the same notification
\* again changes nothing and is acknowledged; an analyze request moves it to
\* analyzed and goes on to the AI call; a second analyze request is refused
\* with 409, starts no AI call and changes nothing.
C4_SequentialScenario ==
  \A params \in PaidNotifications :
    LET o  == Get(params, "out_trade_no")
        w1 == WebhookRun(params, orders)
        w2 == WebhookRun(params, w1.rows)
        a1 == AnalyzeRun(env, AnalyzeBody(o), w2.rows)
        a2 == AnalyzeRun(env, AnalyzeBody(o), a1.rows)
    IN o \in DOMAIN orders /\ orders[o].status = "pending" =>
         /\ w1.rows[o].status = "paid" /\ Acknowledged(w1.res)
         /\ w2.rows = w1.rows /\ Acknowledged(w2.res)
         /\ a1.rows[o].status = "analyzed" /\ a1.ai
         /\ a1.rows = [w2.rows EXCEPT ![o].status = "analyzed"]
         /\ a2.rows = a1.rows /\ ~a2.ai /\ a2.res = AlreadyConsumed /\ a2.res.status = 409

\* the scenario has run: one transition each, one AI call, and the last
\* analyze request refused
C4_Witness ==
  \E o \in DOMAIN orders :
    /\ orders[o].status = "analyzed"
    /\ paidTransitions[o] = 1 /\ analyzedTransitions[o] = 1 /\ aiCalls[o] = 1
    /\ res = AlreadyConsumed
    /\ inflight = EmptyBag

\* C5: a notification whose sign field is missing, empty or not the
\* signature made with the shared secret is refused and changes no order, in
\* every state of the store.
C5_BadSignatureRefused ==
  \A params \in BadlySigned :
    LET w == WebhookRun(params, orders)
    IN Refused(w.res) /\ w.rows = orders

\* a badly signed notification was answered while an order it could have
\* paid is pending
C5_Witness == res = SignError /\ \E o \in DOMAIN orders : orders[o].status = "pending"

\* the numbers parseFloat reads from the amounts of the notifications,
\* evaluated once
MoneyValues == { <<m, parseFloatStr(m)>> : m \in Moneys }

MoneyValue(m) == (CHOOSE t \in MoneyValues : t[1] = m)[2]

\* the column texts of the stored amounts, evaluated once
AmountTexts == { <<a, DecimalText(a)>> : a \in StoredAmounts }

AmountText(a) == (CHOOSE t \in AmountTexts : t[1] = a)[2]

\* C6: a validly signed success notification for a pending order whose
\* amount has another value than the stored one is refused and leaves the
\* order as it is.
C6_AmountMismatchRefused ==
  \A params \in SuccessNotifications :
    LET o == Get(params, "out_trade_no")
        w == WebhookRun(params, orders)
    IN /\ o \in DOMAIN orders
       /\ orders[o].status = "pending"
       /\ MoneyValue(Get(params, "money")) # orders[o].amount
       => Refused(w.res) /\ w.rows = orders

C6_Witness == res = AmountMismatchError /\ \E o \in DOMAIN orders : orders[o].status = "pending"

\* C7 as claimed: the amount check is byte for byte, so a success
\* notification whose amount text is not the stored amount's text is
\* refused without a state change.
C7_ByteForByte ==
  \A params \in SuccessNotifications :
    LET o == Get(params, "out_trade_no")
        w == WebhookRun(params, orders)
    IN /\ o \in DOMAIN orders
       /\ orders[o].status = "pending"
       /\ Get(params, "money") # AmountText(orders[o].amount)
       => Refused(w.res) /\ w.rows = orders

\* C7 as amended: the amount check compares the numbers that parseFloat
\* reads: a success notification for a pending order is applied exactly when
\* the number read from its amount equals the stored amount, however it is
\* written, and is refused without a state change otherwise.
C7_NumericComparison ==
  \A params \in SuccessNotifications :
    LET o == Get(params, "out_trade_no")
        w == WebhookRun(params, orders)
    IN o \in DOMAIN orders /\ orders[o].status = "pending" =>
         IF MoneyValue(Get(params, "money")) = orders[o].amount
         THEN w.rows[o].status = "paid" /\ Acknowledged(w.res)
         ELSE Refused(w.res) /\ w.rows = orders

\* the notification with the amount written 5e-1 (trade_no T2) has paid an
\* order whose amount is stored as 0.50
C7_Witness ==
  \E o \in DOMAIN orders :
    /\ orders[o].status = "paid" /\ orders[o].trade_no = "T2"
    /\ AmountText(orders[o].amount) = "0.50"
    /\ res = PaymentRecorded

\* C8: a validly signed notification whose provider status is not the
\* success status is acknowledged and changes no order, whether or not its
\* order exists and whatever its status and amount.
C8_OtherStatusAcknowledged ==
  \A params \in OtherNotifications :
    LET w == WebhookRun(params, orders)
    IN Acknowledged(w.res) /\ w.rows = orders

C8_Witness == res = SkippedStatus

\* C9: a validly signed success notification naming an order number that is
\* not in the store is answered 404, not with the success token, and the
\* store stays as it is.
C9_UnknownOrderNotFound ==
  \A params \in SuccessNotifications :
    LET w == WebhookRun(params, orders)
    IN Get(params, "out_trade_no") \notin DOMAIN orders =>
         w.res.status = 404 /\ Refused(w.res) /\ w.rows = orders

\* answered not found while another order exists
C9_Witness == res = OrderNotFound /\ DOMAIN orders # {}

\* C10: a validly signed success notification for an order that is paid or
\* analyzed is acknowledged and changes nothing, whatever amount and trade
\* number it reports.
C10_DuplicateAcknowledged ==
  \A params \in SuccessNotifications :
    LET o == Get(params, "out_trade_no")
        w == WebhookRun(params, orders)
    IN o \in DOMAIN orders /\ orders[o].status \in {"paid", "analyzed"} =>
         Acknowledged(w.res) /\ w.rows = orders

C10_Witness ==
  res = DuplicateSkipped /\ \E o \in DOMAIN orders : orders[o].status = "analyzed"

SignatureFails(params) == params \in BadlySigned

OrderMissing(params, rows) == Get(params, "out_trade_no") \notin DOMAIN rows

AmountDiffers(params, rows) ==
  /\ Get(params, "out_trade_no") \in DOMAIN rows
  /\ MoneyValue(Get(params, "money")) # rows[Get(params, "out_trade_no")].amount

\* C11 as claimed: a delivery is answered without the success token only if
\* its signature fails, its order does not exist or its amount differs from
\* the stored one, whatever the deployment and the statements on the store
\* do.
C11_ThreeRefusalsOnly ==
  /\ \A params \in WebhookRequests, queryError, updateError \in BOOLEAN :
       LET w == WebhookRunFailing(env, params, orders, queryError, updateError)
       IN ~Acknowledged(w.res) =>
            SignatureFails(params) \/ OrderMissing(params, orders) \/ AmountDiffers(params, orders)
  /\ res.kind = "webhook" /\ ~Acknowledged(res) =>
       res \in {SignError, OrderNotFound, AmountMismatchError}

\* C11 as amended: a delivery is answered without the success token only if
\* its signature fails, its order does not exist, its amount differs from
\* the stored one, or the handler itself fails: ZPAY_KEY is not configured,
\* the storage client cannot be created, or a statement on the store (the
\* lookup or the conditional update) fails.  The answer for a missing key
\* is given exactly then, the one for the client and the one for the update
\* only when that step was reached and failed; every other delivery is
\* acknowledged, in particular every delivery with a status other than
\* success, every duplicate whose lookup succeeds and every delivery that
\* lost a race and whose update goes through; a delivery that is not
\* acknowledged changes nothing.
C11_RefusalsAndHandlerFailures ==
  /\ \A params \in WebhookRequests, queryError, updateError \in BOOLEAN :
       LET w == WebhookRunFailing(env, params, orders, queryError, updateError)
           o == Get(params, "out_trade_no")
       IN /\ ~Acknowledged(w.res) =>
               \/ SignatureFails(params)
               \/ OrderMissing(params, orders)
               \/ AmountDiffers(params, orders)
               \/ Falsy(env.ZPAY_KEY) \/ SupabaseConfigMissing(env)
               \/ queryError \/ updateError
          /\ w.res = KeyNotConfigured <=> Falsy(env.ZPAY_KEY)
          /\ w.res = WebhookThrew =>
               /\ SupabaseConfigMissing(env) /\ ~SignatureFails(params)
               /\ Get(params, "trade_status") = "TRADE_SUCCESS"
          /\ w.res = UpdateFailed =>
               updateError /\ ~queryError /\ o \in DOMAIN orders /\ orders[o].status = "pending"
          /\ w.res = OrderNotFound => OrderMissing(params, orders) \/ queryError
          /\ ~Falsy(env.ZPAY_KEY) /\ ~SignatureFails(params)
               /\ Get(params, "trade_status") # "TRADE_SUCCESS"
               => Acknowledged(w.res)
          /\ ~Falsy(env.ZPAY_KEY) /\ ~SupabaseConfigMissing(env) /\ ~SignatureFails(params)
               /\ ~queryError /\ o \in DOMAIN orders /\ orders[o].status # "pending"
               => Acknowledged(w.res)
          /\ ~Acknowledged(w.res) => w.rows = orders
  /\ \A h \in WebhooksInFlight : Acknowledged(WebhookUpdateStep(h, orders).res)
  /\ res.kind = "webhook" /\ ~Acknowledged(res) =>
       res \in {SignError, OrderNotFound, AmountMismatchError, UpdateFailed,
                KeyNotConfigured, WebhookThrew}

\* the update of a correct notification failed: the delivery was answered
\* with an error while its order exists, is pending and has the amount
C11_Witness ==
  /\ res = UpdateFailed
  /\ \E o \in DOMAIN orders : orders[o].status = "pending"

AnalyzesInFlight == { h \in BagToSet(inflight) : h.h = "analyze" }

\* C12: an order is moved paid -> analyzed only after it was moved
\* pending -> paid: no order has an analyzed transition without a paid
\* transition, and on a pending order neither the analyze handler nor its
\* conditional update, whenever it runs, changes anything.
C12_PaidBeforeAnalyzed ==
  /\ \A o \in OrderNos : analyzedTransitions[o] > 0 => paidTransitions[o] > 0
  /\ \A o \in DOMAIN orders :
       orders[o].status = "pending" =>
         /\ UpdateToAnalyzed(orders, o) = orders
         /\ AnalyzeRun(env, AnalyzeBody(o), orders).rows = orders
         /\ analyzedTransitions[o] = 0
  /\ \A h \in AnalyzesInFlight :
       h.pc = "update" => orders[h.out_trade_no].status # "pending"

\* an analyze request came before the webhook of its order and was refused,
\* while another order went through both transitions
C12_Witness ==
  /\ res = OrderNotPaid
  /\ \E o1, o2 \in DOMAIN orders :
       /\ orders[o1].status = "pending"
       /\ orders[o2].status = "analyzed" /\ paidTransitions[o2] = 1 /\ analyzedTransitions[o2] = 1

\* C13: with payment enforced, an analyze request with an image is refused,
\* starts no AI call and changes no order: 402 without an order number, 404
\* for an unknown order, 409 for an analyzed order, 402 for a pending order.
C13_AnalyzeRefusals ==
  PAYMENT_REQUIRED =>
    \A body \in AnalyzeRequests :
      LET o == Get(body, "out_trade_no")
          a == AnalyzeRun(env, body, orders)
          refused == ~a.ai /\ a.rows = orders /\ a.res.body.success = FALSE
      IN ~Falsy(Get(body, "image")) =>
           /\ Falsy(o) => refused /\ a.res.status = 402
           /\ ~Falsy(o) /\ o \notin DOMAIN orders => refused /\ a.res.status = 404
           /\ o \in DOMAIN orders /\ orders[o].status = "analyzed" =>
                refused /\ a.res.status = 409 /\ a.res = AlreadyConsumed
           /\ o \in DOMAIN orders /\ orders[o].status = "pending" =>
                refused /\ a.res.status = 402

\* an analyze request naming an unknown order was refused while another
\* order exists, and no AI call was started
C13_Witness ==
  /\ res = OrderUnknown
  /\ DOMAIN orders # {}
  /\ \A o \in DOMAIN aiCalls : aiCalls[o] = 0

\* C14: with payment enforced, an analyze handler that has started its AI
\* call names an order whose stored status is analyzed; the step that starts
\* the AI call leaves the order analyzed.
C14_AnalyzedBeforeAiCall ==
  PAYMENT_REQUIRED =>
    /\ \A h \in AnalyzesInFlight :
         /\ h.pc = "ai" =>
              h.out_trade_no \in DOMAIN orders /\ orders[h.out_trade_no].status = "analyzed"
         /\ h.pc = "update" =>
              LET u == AnalyzeUpdateStep(env, h, orders)
              IN u.h.pc = "ai" /\ u.rows[h.out_trade_no].status = "analyzed"
    /\ \A o \in OrderNos :
         aiCalls[o] > 0 => o \in DOMAIN orders /\ orders[o].status = "analyzed"

\* an AI call is running for an order that this request moved to analyzed
C14_Witness ==
  \E h \in AnalyzesInFlight :
    /\ h.pc = "ai"
    /\ analyzedTransitions[h.out_trade_no] = 1
    /\ aiCalls[h.out_trade_no] = 1

\* checkout bodies tried on every store: two client ids, and a uid that is
\* absent, empty or null
CheckoutBodies ==
  { Obj(<< <<"uid", uid>>, <<"pay_type", pt>> >>) :
      <<uid, pt>> \in {"u1", "u2", "", Null, Undefined} \X CheckoutPayTypes }

ValidCheckoutBodies ==
  { body \in CheckoutBodies :
      Get(body, "uid") \in {"u1", "u2"} /\ Get(body, "pay_type") \in {"alipay", "wxpay", Undefined} }

\* C15: a checkout whose uid is missing, or whose pay_type is given and is
\* neither alipay nor wxpay, is answered with a 4xx failure and inserts no
\* order, whatever order number would have been generated.
C15_InvalidInputRefused ==
  \A body \in CheckoutBodies \ ValidCheckoutBodies, o \in OrderNos :
    LET c == CheckoutRun(body, o, orders)
    IN /\ c.rows = orders
       /\ c.res.status \in 400..499
       /\ c.res.body.success = FALSE

\* a checkout with an unknown pay type was refused
C15_Witness == res = BadPayType /\ DOMAIN orders # {}

\* C16 as claimed: a checkout with valid input whose generated order number
\* is taken draws another number and succeeds when one is free; it fails
\* only when every number it can draw is taken.
C16_RetryOnCollision ==
  /\ \A body \in ValidCheckoutBodies, o \in OrderNos :
       (\E free \in OrderNos : free \notin DOMAIN orders) =>
         CheckoutRun(body, o, orders).res.status = 200
  /\ res = CreateFailed => OrderNos \subseteq DOMAIN orders

\* C17: a checkout with valid input whose generated order number is taken
\* leaves every order as it is and is answered with a 5xx failure that
\* carries no order number.
C17_CollisionKeepsOrder ==
  \A body \in ValidCheckoutBodies, o \in DOMAIN orders :
    LET c == CheckoutRun(body, o, orders)
    IN /\ c.rows = orders
       /\ c.res.status \in 500..599
       /\ c.res.body = Failure("create order failed")

\* a checkout collided with an order that is already paid or analyzed
C17_Witness ==
  /\ res = CreateFailed
  /\ \E o \in DOMAIN orders : orders[o].status \in {"paid", "analyzed"}

\* every payment page names its order number and carries a signature that
\* verifies with the shared secret
PayUrlsSigned ==
  \A t \in DOMAIN PayUrls :
    /\ Get(PayUrls[t].query, "out_trade_no") = t[1]
    /\ Get(PayUrls[t].query, "type") = t[2]
    /\ verifySign(PayUrls[t].query, ZPAY_KEY)

\* C18: a checkout adds at most one order and changes no order that exists;
\* when it answers 200 it has inserted exactly one order, pending, with the
\* fixed amount and the uid of the request, under the number it returns,
\* which is the number in the signed payment URL; when it answers with an
\* error the store is as it was.
C18_CheckoutFrame ==
  /\ PayUrlsSigned
  /\ \A body \in CheckoutBodies, o \in OrderNos :
       \A c \in {CheckoutRun(body, o, orders)} :
          IF c.res.status = 200
          THEN /\ o \notin DOMAIN orders
               /\ c.rows = orders @@ (o :> c.rows[o])
               /\ c.rows[o].status = "pending"
               /\ AmountText(c.rows[o].amount) = ORDER_AMOUNT
               /\ c.rows[o].uid = Get(body, "uid")
               /\ c.res.body.success = TRUE
               /\ c.res.body.out_trade_no = o
               /\ c.res.body.url = PayUrls[<<o, c.rows[o].pay_type>>]
          ELSE c.rows = orders /\ c.res.body.success = FALSE

\* a second checkout succeeded while the first order is already paid
C18_Witness ==
  /\ res.kind = "checkout" /\ res.status = 200
  /\ res.body.out_trade_no \in DOMAIN orders
  /\ orders[res.body.out_trade_no].status = "pending"
  /\ \E o \in DOMAIN orders : orders[o].status = "paid"

\* C19: no step removes an order or changes its uid or its amount, the
\* orders are the values of a table keyed by order number, and an insert
\* under a number that is taken fails.
C19_OrdersImmutable ==
  /\ [][\A o \in DOMAIN orders :
          /\ o \in DOMAIN orders'
          /\ orders'[o].uid = orders[o].uid
          /\ orders'[o].amount = orders[o].amount]_vars
  /\ [](\A o \in DOMAIN orders :
          /\ o \in OrderNos
          /\ InsertOrder(orders, o, orders[o]).error
          /\ InsertOrder(orders, o, orders[o]).rows = orders)

\* an order went through checkout, payment and analysis next to another one
C19_Witness ==
  /\ Cardinality(DOMAIN orders) = 2
  /\ \E o \in DOMAIN orders :
       /\ orders[o].status = "analyzed"
       /\ orders[o].trade_no \in TradeNos
       /\ orders[o].uid \in Uids
       /\ AmountText(orders[o].amount) = ORDER_AMOUNT

\* the entries that are signed: value not empty, null or undefined, key not
\* sign or sign_type
SignedEntries(entries) ==
  { entries[i] : i \in { j \in 1..Len(entries) :
                           /\ entries[j][2] \notin {"", Null, Undefined}
                           /\ entries[j][1] \notin {"sign", "sign_type"} } }

\* key=value of a set of entries with different keys, the keys ascending,
\* joined with &: the entry with the greatest key comes last
RECURSIVE AscendingJoined(_)
AscendingJoined(S) ==
  IF S = {} THEN ""
  ELSE LET last == CHOOSE e \in S : \A f \in S : ~StrLess(e[1], f[1])
           rest == S \ {last}
       IN (IF rest = {} THEN "" ELSE AscendingJoined(rest) \o "&") \o last[1] \o "=" \o last[2]

\* the entries in the insertion order f
Reordered(entries, f) == [i \in 1..Len(entries) |-> entries[f[i]]]

\* C20: buildSignString returns key=value of exactly the entries whose value
\* is not empty, null or undefined and whose key is not sign or sign_type,
\* by ascending key, joined with &, and returns the same text for every
\* insertion order of the entries.
C20_BuildSignString ==
  callResult.fn = "buildSignString" =>
    /\ callResult.value = AscendingJoined(SignedEntries(callArgs))
    /\ \A f \in Permutations(1..Len(callArgs)) :
         buildSignString(Reordered(callArgs, f)) = callResult.value

\* three entries inserted with the greater key first and a reserved key in
\* between gave the two signed entries by ascending key
C20_Witness ==
  /\ Len(callArgs) = 3
  /\ callArgs[1][1] = "money" /\ callArgs[2][1] = "sign_type" /\ callArgs[3][1] = "Name"
  /\ callResult = [fn |-> "buildSignString", value |-> "Name=0.50&money=0.50"]

\* the parameters without the two reserved fields
WithoutSignFields(params) ==
  SelectSeq(params, LAMBDA e : e[1] \notin {"sign", "sign_type"})

\* C21: verifySign(params, key) is false when sign is absent or empty, and
\* otherwise true exactly when sign is the MD5 text of the ascending join of
\* the signed fields followed by the key, which is generateSign of the
\* parameters without sign and sign_type under the same key
C21_VerifySign ==
  callResult.fn = "verifySign" =>
    LET sign == Get(callArgs, "sign")
        key  == callResult.key
    IN /\ sign \in {Undefined, Null, ""} => callResult.value = FALSE
       /\ sign \notin {Undefined, Null, ""} =>
            /\ callResult.value = (sign = Md5Hex(AscendingJoined(SignedEntries(callArgs)) \o key))
            /\ callResult.value = (sign = generateSign(WithoutSignFields(callArgs), key))

\* a signed object of four entries was accepted under the key it was signed with
C21_Witness ==
  /\ callResult = [fn |-> "verifySign", key |-> ZPAY_KEY, value |-> TRUE]
  /\ Len(callArgs) = 4
  /\ Get(callArgs, "sign") = "md5(Name=0.50&money=0.50" \o ZPAY_KEY \o ")"
\* every payment page of checkout verifies under the configured secret
\* and under no other
RedirectsVerify ==
  \A t \in OrderNos \X PayTypes :
    \A k \in Secrets : verifySign(PayUrls[t].query, k) = (k = ZPAY_KEY)

\* C22: a parameter object to which sign = generateSign(p, k) and
\* sign_type = MD5 were added is accepted by verifySign under k; once the
\* value of one of its signed fields is changed it is rejected under k;
\* the payment pages of checkout verify under the configured secret
C22_RoundTrip ==
  /\ RedirectsVerify
  /\ callResult.fn = "verifySign" =>
       /\ callArgs \in SignedMappings[callResult.key] => callResult.value = TRUE
       /\ callArgs \in TamperedMappings[callResult.key] => callResult.value = FALSE

\* an object signed with the configured secret, its amount then replaced
\* by a value that reads like two fields, was rejected under that secret
C22_Witness ==
  /\ callResult = [fn |-> "verifySign", key |-> ZPAY_KEY, value |-> FALSE]
  /\ callArgs \in TamperedMappings[ZPAY_KEY]
  /\ Get(callArgs, "money") = "0.50&signs=0.50"
  /\ Get(callArgs, "sign") = "md5(money=0.50" \o ZPAY_KEY \o ")"

\* the decimal number written by the characters i..j of s
Field(s, i, j) == DigitsToInt(SubSeq(s, i, j), 0)

\* the last three characters of the order numbers, as a number, over all
\* values of Math.floor(Math.random() * 900)
Suffixes ==
  { Field(generateOrderNo(d, u), Len(generateOrderNo(d, u)) - 2, Len(generateOrderNo(d, u))) :
      d \in Dates, u \in 0..899 }

\* C23: an order number is 17 decimal digits: year, month, day, hour,
\* minute and second of the local time in 4+2+2+2+2+2 zero-padded digits,
\* then an integer between 100 and 999; there are 900 such suffixes
C23_OrderNoFormat ==
  /\ Suffixes = 100..999
  /\ Cardinality(Suffixes) = 900
  /\ callResult.fn = "generateOrderNo" =>
       LET v == callResult.value
           d == callResult.d
       IN /\ Len(v) = 17
          /\ \A i \in 1..17 : IsDigit(CharAt(v, i))
          /\ Field(v, 1, 4) = d.year
          /\ Field(v, 5, 6) = d.month + 1
          /\ Field(v, 7, 8) = d.date
          /\ Field(v, 9, 10) = d.hours
          /\ Field(v, 11, 12) = d.minutes
          /\ Field(v, 13, 14) = d.seconds
          /\ Field(v, 15, 17) = callResult.u + 100
          /\ Field(v, 15, 17) \in 100..999

\* the call at 09:00:09 on 9 September 2026 with the greatest draw returned
\* a number with every field padded
C23_Witness ==
  /\ callResult.fn = "generateOrderNo"
  /\ callResult.value = "20260909090009999"
  /\ callResult.u = 899

\* the position of a local time in the order of the calendar
Seconds(d) ==
  (((((d.year - 2026) * 12 + d.month) * 31 + d.date) * 24 + d.hours) * 60 + d.minutes) * 60
    + d.seconds

\* the order number without the three digits of its suffix
TimestampPrefix(v) == SubSeq(v, 1, Len(v) - 3)

\* a <= b on two texts of more than seven digits read as numbers: each is
\* its last seven digits plus 10^7 times the digits before them
NumberLeq(a, b) ==
  LET aHigh == Field(a, 1, Len(a) - 7)
      bHigh == Field(b, 1, Len(b) - 7)
  IN \/ aHigh < bHigh
     \/ aHigh = bHigh /\ Field(a, Len(a) - 6, Len(a)) <= Field(b, Len(b) - 6, Len(b))

\* C24: when the local time read by a call is not before the one read by
\* the call before it, the 14-digit prefix of its number is not below the
\* prefix of the earlier number, as a string and as a number
C24_PrefixMonotone ==
  (callResult.fn = "generateOrderNo" /\ callResult.before.fn = "generateOrderNo"
     /\ Seconds(callResult.before.d) <= Seconds(callResult.d)) =>
    LET earlier == TimestampPrefix(callResult.before.value)
        later   == TimestampPrefix(callResult.value)
    IN /\ Len(earlier) = 14 /\ Len(later) = 14
       /\ ~StrLess(later, earlier)
       /\ NumberLeq(earlier, later)

\* a call on 9 October 23:59:10 2026 was followed by one in the first
\* second modelled of 10 October
C24_Witness ==
  /\ callResult.fn = "generateOrderNo"
  /\ callResult.before.fn = "generateOrderNo"
  /\ TimestampPrefix(callResult.before.value) = "20261009105910"
  /\ TimestampPrefix(callResult.value) = "20261010090009"
\* C25: a status poll that names an order of the table answers 200 with
\* success, the order's current status and its uid; one that names no
\* order of the table answers 404; the table after a poll is the table
\* before it
C25_StatusPoll ==
  \A query \in StatusRequests :
    \A s \in {StatusRun(query, orders)} :
      LET o == Get(query, "out_trade_no")
      IN /\ s.rows = orders
         /\ o \in DOMAIN orders =>
              /\ s.res.status = 200
              /\ s.res.body = [success |-> TRUE, status |-> orders[o].status, uid |-> orders[o].uid]
         /\ (o \in OrderNos \ DOMAIN orders) =>
              /\ s.res.status = 404
              /\ s.res.body.success = FALSE

\* a poll has just reported a paid order while the other order is pending
C25_Witness ==
  /\ res.kind = "status" /\ res.status = 200 /\ res.body.status = "paid"
  /\ \E o \in DOMAIN orders : orders[o].status = "paid"
  /\ \E o \in DOMAIN orders : orders[o].status = "pending"
\* the provider fields of a row
ProviderFields(row) == <<row.trade_no, row.trade_status>>

\* C27: a pending order has no provider trade number and no provider
\* status text; an order that is not pending has both and went through
\* exactly one pending -> paid update; the update of a webhook handler
\* changes these fields only of a row it moves from pending to paid, and
\* the update of the analyze handler never changes them
C27_PendingHasNoTrade ==
  /\ \A o \in DOMAIN orders :
       IF orders[o].status = "pending"
       THEN ProviderFields(orders[o]) = <<Null, Null>> /\ paidTransitions[o] = 0
       ELSE /\ orders[o].trade_no \in TradeNos
            /\ orders[o].trade_status = "TRADE_SUCCESS"
            /\ paidTransitions[o] = 1
  /\ \A h \in Handlers :
       \A rows \in { IF h.h = "webhook" THEN WebhookUpdateStep(h, orders).rows
                      ELSE AnalyzeUpdateStep(env, h, orders).rows } :
         \A o \in DOMAIN orders :
           ProviderFields(rows[o]) # ProviderFields(orders[o]) =>
             /\ h.h = "webhook"
             /\ orders[o].status = "pending"
             /\ rows[o].status = "paid"

\* one order is paid and carries its trade number, the other is pending
C27_Witness ==
  \E o1, o2 \in DOMAIN orders :
    /\ orders[o1].status = "pending" /\ orders[o1].trade_no = Null
    /\ orders[o2].status = "paid" /\ orders[o2].trade_no = "T2"
    /\ paidTransitions[o2] = 1

\* C29: the provider fields are written together with the status: the
\* trade number, provider status and payment method of an order that is
\* not pending are those of one delivery, and the update of a handler that
\* is still in flight when its order is no longer pending changes nothing
C29_LoserNeverOverwrites ==
  /\ \A o \in DOMAIN orders :
       orders[o].status # "pending" =>
         \E pm \in Payments :
           /\ orders[o].trade_no = pm[2]
           /\ orders[o].pay_type = pm[3]
           /\ orders[o].trade_status = "TRADE_SUCCESS"
  /\ \A h \in WebhooksInFlight :
       (h.out_trade_no \in DOMAIN orders /\ orders[h.out_trade_no].status # "pending") =>
         WebhookUpdateStep(h, orders).rows = orders

\* the delivery with trade number T1 was applied while the delivery with
\* T2 for the same order, reporting another payment method, is in flight
C29_Witness ==
  \E h \in WebhooksInFlight :
    /\ h.trade_no = "T2" /\ h.type = "alipay"
    /\ h.out_trade_no \in DOMAIN orders
    /\ orders[h.out_trade_no].status = "paid"
    /\ orders[h.out_trade_no].trade_no = "T1"
    /\ orders[h.out_trade_no].pay_type = "wxpay"
    /\ res = PaymentRecorded
\* C28: a notification for an order of the table that is delivered by
\* POST ends with the same table and the same response as the same
\* notification delivered by GET
C28_PostAsGet ==
  \A params \in WebhookRequests :
    Get(params, "out_trade_no") \in DOMAIN orders =>
      WebhookPostRun(params, orders) = WebhookRun(params, orders)
\* 1 for an attempt that started the AI call
AiStarted(a) == IF a.ai THEN 1 ELSE 0

\* C26: no order is moved pending -> paid or paid -> analyzed more than
\* once, storage errors included.  A webhook or analyze request whose
\* update would apply, and fails, is answered 5xx, has changed nothing and
\* has started no AI call; the same request repeated then ends as the
\* request would have ended had it succeeded at once, and over the failed
\* attempt, the repetition and one more repetition the AI call is started
\* at most once
C26_RetryIsSafe ==
  /\ \A o \in OrderNos : paidTransitions[o] <= 1 /\ analyzedTransitions[o] <= 1
  /\ \A params \in SuccessNotifications :
       \A f \in {WebhookRunFailing(env, params, orders, FALSE, TRUE)} :
         WebhookRun(params, orders).rows # orders =>
           /\ f.res.status >= 500
           /\ f.rows = orders
           /\ \A r \in {WebhookRunFailing(env, params, f.rows, FALSE, FALSE)} :
                /\ r = WebhookRun(params, orders)
                /\ WebhookRun(params, r.rows).rows = r.rows
  /\ \A o \in DOMAIN orders :
       \A f \in {AnalyzeRunFailing(env, AnalyzeBody(o), orders, FALSE, TRUE)} :
         AnalyzeRun(env, AnalyzeBody(o), orders).rows # orders =>
           /\ f.res.status >= 500
           /\ f.rows = orders
           /\ \A r \in {AnalyzeRunFailing(env, AnalyzeBody(o), f.rows, FALSE, FALSE)} :
                /\ r = AnalyzeRun(env, AnalyzeBody(o), orders)
                /\ \A again \in {AnalyzeRun(env, AnalyzeBody(o), r.rows)} :
                     /\ again.rows = r.rows
                     /\ AiStarted(f) + AiStarted(r) + AiStarted(again) <= 1

\* an analyze request for a paid order has just been answered 500 because
\* its update failed: the order is still paid and no AI call was started
C26_Witness ==
  /\ res = AnalyzeUpdateFailed
  /\ inflight = EmptyBag
  /\ \E o \in DOMAIN orders :
       /\ orders[o].status = "paid"
       /\ aiCalls[o] = 0
       /\ AnalyzeRun(env, AnalyzeBody(o), orders).ai
(***************************************************************************)
(* The webhook under a provider that redelivers: the provider notifies of  *)
(* payments for orders checkout created, and delivers a notification again *)
(* as long as it has not been answered success.  An order leaves pending   *)
(* in the very step that answers success (part_002:143-163), so the        *)
(* provider is waiting for exactly the orders that are pending.            *)
(***************************************************************************)
\* the provider's notifications of a successful payment whose amount
\* passes the comparison with the amount of the order
MatchingNotifications ==
  { params \in SuccessNotifications : ~AmountMismatch(Get(params, "money"), OrderAmount) }

\* for each order number, the notifications and the handlers that name it
NotificationsOf ==
  [o \in OrderNos |-> { params \in MatchingNotifications : Get(params, "out_trade_no") = o }]

HandlersOf ==
  [o \in OrderNos |-> { h \in Handlers : h.h = "webhook" /\ h.out_trade_no = o }]

ProviderAwaits(o) == o \in DOMAIN orders /\ orders[o].status = "pending"

\* a delivery whose select succeeds
Redelivery(params) ==
  /\ ProviderAwaits(Get(params, "out_trade_no"))
  /\ WebhookReceive(params)

\* a delivery whose select fails
RedeliveryLookupFails(params) ==
  /\ ProviderAwaits(Get(params, "out_trade_no"))
  /\ WebhookLookupFails(params)

LiveNext ==
  \/ \E body \in CheckoutRequests, d \in Dates, u \in RandomDraws : Checkout(body, d, u)
  \/ \E params \in MatchingNotifications : Redelivery(params)
  \/ \E params \in MatchingNotifications : RedeliveryLookupFails(params)
  \/ \E h \in Handlers : WebhookUpdate(h)
  \/ \E h \in Handlers : WebhookUpdateFails(h)

\* the provider keeps delivering while it waits, and the statements of a
\* handler do not fail forever: a delivery with a successful select and an
\* update that succeeds, each possible again and again, eventually happen
LiveFairness ==
  \A o \in OrderNos :
    /\ SF_vars(\E params \in NotificationsOf[o] : Redelivery(params))
    /\ SF_vars(\E h \in HandlersOf[o] : WebhookUpdate(h))

LiveSpec == Init /\ [][LiveNext]_vars /\ LiveFairness

\* C30: under a provider that redelivers a validly signed TRADE_SUCCESS
\* notification with matching amount until it is answered success, and
\* with statements on the store that eventually succeed, every order that
\* exists eventually is no longer pending and stays so; the step in which
\* it leaves pending answers success; and once it is not pending no
\* further delivery for it is taken up
C30_EventuallyAcknowledged ==
  /\ \A o \in OrderNos :
       (o \in DOMAIN orders) ~> [](o \in DOMAIN orders /\ orders[o].status # "pending")
  /\ [][\A o \in DOMAIN orders :
          /\ (orders[o].status = "pending" /\ orders'[o].status # "pending") =>
               Acknowledged(res')
          /\ orders[o].status # "pending" =>
               \A h \in HandlersOf[o] : CopiesIn(h, inflight') <= CopiesIn(h, inflight)]_vars

\* a delivery has just been answered success, its order is paid with the
\* trade number of the notification and no handler is left, while the
\* provider still waits for the other order
C30_Witness ==
  /\ res = PaymentRecorded
  /\ inflight = EmptyBag
  /\ \E o \in DOMAIN orders : orders[o].status = "paid" /\ orders[o].trade_no = "T2"
  /\ \E o \in DOMAIN orders : orders[o].status = "pending"

AiFailures == AiOutcomes \ {"json"}

\* C32: with payment enforcement on, an AI call that fails, times out or
\* returns output that cannot be parsed, after the order went paid ->
\* analyzed, is answered with 500 or 504 and leaves the order analyzed; an
\* analyze request for the order after that is refused with 409 and starts
\* no AI call, as is every analyze request for an order that is analyzed.
C32_FailedAnalysisConsumes ==
  /\ \A h \in AnalyzesInFlight :
       h.pc = "ai" /\ h.out_trade_no \in DOMAIN orders /\ orders[h.out_trade_no].status = "analyzed"
       => \A outcome \in AiFailures :
            LET s     == AnalyzeRespondStep(h, outcome, orders)
                later == AnalyzeRun(env, AnalyzeBody(h.out_trade_no), s.rows)
            IN /\ s.res.status \in {500, 504} /\ s.res.body.success = FALSE
               /\ s.rows = orders
               /\ later.res = AlreadyConsumed /\ ~later.ai /\ later.rows = s.rows
  /\ \A o \in DOMAIN orders :
       orders[o].status = "analyzed"
       => LET later == AnalyzeRun(env, AnalyzeBody(o), orders)
          IN later.res = AlreadyConsumed /\ ~later.ai /\ later.rows = orders

\* the AI call of an order failed: the failure was answered, the order is
\* analyzed and no handler for it is left
C32_Witness ==
  /\ PAYMENT_REQUIRED
  /\ res.kind = "analyze" /\ res.status \in {500, 504}
  /\ \E o \in DOMAIN orders :
       /\ orders[o].status = "analyzed" /\ aiCalls[o] = 1
       /\ \A h \in AnalyzesInFlight : h.out_trade_no # o

\* the stores that differ from a store in one respect: an order that is
\* missing, the status of an order, the amount of an order, or every order
StoreVariants(rows) ==
  {NoRows}
  \cup { [x \in DOMAIN rows \ {o} |-> rows[x]] : o \in DOMAIN rows }
  \cup { [rows EXCEPT ![t[1]].status = t[2]] : t \in (DOMAIN rows) \X Statuses }
  \cup { [rows EXCEPT ![o].amount = a] : o \in DOMAIN rows, a \in StoredAmounts }

\* C33: the response to a notification whose signature does not verify
\* does not depend on the store: run on the store as it is, on the empty
\* store and on every store that differs in the orders that exist, in a
\* status or in an amount, the handler gives one and the same response
\* (status, body and log line), and leaves each store as it found it.
C33_BadSignatureSameResponse ==
  \A variants \in {StoreVariants(orders)} :
    \A params \in BadlySigned :
      \A here \in {WebhookRun(params, orders)} :
        \A v \in variants :
          \A there \in {WebhookRun(params, v)} :
            there.res = here.res /\ there.rows = v

\* a badly signed notification was answered in a store that holds a paid
\* order and an analyzed order
C33_Witness ==
  /\ res = SignError
  /\ \E o1, o2 \in DOMAIN orders : orders[o1].status = "paid" /\ orders[o2].status = "analyzed"

\* two stores hold the same orders and agree on every order but a
SameElsewhere(after, before, a) ==
  /\ DOMAIN after = DOMAIN before
  /\ \A b \in DOMAIN before \ {a} : after[b] = before[b]

\* C34: a webhook or analyze request that names order A changes no field
\* of another order B and adds or removes no order, at whatever point of
\* other requests it runs: this holds in every reachable store for every
\* request run from its start and for every step of every handler that is
\* suspended.
C34_OtherOrdersUntouched ==
  /\ \A params \in WebhookRequests :
       SameElsewhere(WebhookRun(params, orders).rows, orders, Get(params, "out_trade_no"))
  /\ \A body \in AnalyzeRequests :
       SameElsewhere(AnalyzeRun(env, body, orders).rows, orders, Get(body, "out_trade_no"))
  /\ \A h \in WebhooksInFlight :
       SameElsewhere(WebhookUpdateStep(h, orders).rows, orders, h.out_trade_no)
  /\ \A h \in AnalyzesInFlight :
       /\ h.pc = "update" => SameElsewhere(AnalyzeUpdateStep(env, h, orders).rows, orders, h.out_trade_no)
       /\ h.pc = "ai" => \A outcome \in AiOutcomes :
                           SameElsewhere(AnalyzeRespondStep(h, outcome, orders).rows, orders, h.out_trade_no)

\* one order was paid and analyzed while another order, paid as well, has
\* not been analyzed
C34_Witness ==
  \E a, b \in DOMAIN orders :
    /\ orders[a].status = "analyzed" /\ analyzedTransitions[a] = 1 /\ aiCalls[a] = 1
    /\ orders[b].status = "paid" /\ analyzedTransitions[b] = 0 /\ aiCalls[b] = 0

\* the checkout of one order, the provider's notification of its payment,
\* the status poll and the analyze endpoint, in each deployment
ConfigNext ==
  \/ \E body \in InsertingCheckouts, d \in Dates : Checkout(body, d, 23)
  \/ \E params \in PaidNotifications : WebhookReceive(params)
  \/ \E query \in StatusRequests : StatusPoll(query)
  \/ \E h \in Handlers : WebhookUpdate(h)
  \/ \E body \in AnalyzeRequests : AnalyzeReceive(body)
  \/ \E h \in Handlers : AnalyzeUpdate(h)
  \/ \E h \in Handlers, outcome \in AiOutcomes : AnalyzeRespond(h, outcome)

ConfigSpec == ConfigInit /\ [][ConfigNext]_vars

\* ---- the standalone server ----

\* POST /api/analyze of the server that listens by itself: the handler of the
\* app without the payment block, which reads the image only
StandaloneAnalyzeChecks(e, body) ==
  IF Falsy(Get(body, "image")) THEN Answer(MissingImage) ELSE AiCall(e, Undefined)

StandaloneAnalyzeReceive(body) ==
  LET c == StandaloneAnalyzeChecks(env, body)
  IN /\ BagCardinality(inflight) < MaxInflight
     /\ IF c.answered
          THEN res' = c.res /\ UNCHANGED <<inflight, aiCalls>>
          ELSE /\ aiCalls[Undefined] < MaxAiCalls
               /\ aiCalls' = [aiCalls EXCEPT ![Undefined] = @ + 1]
               /\ inflight' = Suspend(c.h)
               /\ res' = res
     /\ UNCHANGED <<orders, paidTransitions, analyzedTransitions, env, callArgs, callResult, clientVars>>

\* the analyze endpoint of the standalone server and the end of its AI
\* calls, in each deployment
StandaloneNext ==
  \/ \E body \in AnalyzeRequests : StandaloneAnalyzeReceive(body)
  \/ \E h \in Handlers, outcome \in AiOutcomes : AnalyzeRespond(h, outcome)

StandaloneSpec == ConfigInit /\ [][StandaloneNext]_vars

\* the standalone server asks for no payment: with an image and the key of
\* the AI service it starts the AI call whatever the request says of an order
StandaloneNoGate ==
  \A body \in AnalyzeRequests :
    LET c == StandaloneAnalyzeChecks(env, body)
    IN ~Falsy(Get(body, "image")) /\ ~OpenAIKeyMissing(env) => ~c.answered /\ c.h.pc = "ai"

\* C35: in every configuration, an analyze request reaches the AI call
\* only if it names an order that a verified webhook moved to paid and that
\* this request moved to analyzed: every order number with an AI call
\* started for it is an order that has its paid transition and at least as
\* many analyzed transitions as AI calls.
C35_GatedInEveryConfiguration ==
  \A o \in DOMAIN aiCalls :
    aiCalls[o] > 0
    => /\ o \in DOMAIN orders
       /\ paidTransitions[o] = 1
       /\ aiCalls[o] <= analyzedTransitions[o]

(***************************************************************************)
(* The page: component Index and its requests to the backend.  A request   *)
(* of the page is a callback of the page suspended at its fetch and, once  *)
(* the request has reached the backend, the handler of the backend with    *)
(* its own awaits; the response travels back to the callback, unless the   *)
(* fetch is rejected or the page is loaded again in between                *)
(***************************************************************************)
\* requests and FileReader callbacks of the page that are under way
MaxPending == 2

\* file.size above which handleFileSelect refuses the file
MaxFileSize == 5 * 1024 * 1024

\* what FileReader.readAsDataURL hands to reader.onload
Photo == "data:image/png;base64,AAAA"

\* the files the user selects: a photo, a photo that is too large, a file
\* that is no image
Files ==
  { [type |-> "image/png", size |-> MaxFileSize],
    [type |-> "image/png", size |-> MaxFileSize + 1],
    [type |-> "application/pdf", size |-> 1024] }

\* file.type.startsWith("image/")
IsImage(file) == Len(file.type) >= 6 /\ SubSeq(file.type, 1, 6) = "image/"

\* the two messages of handleFileSelect (Chinese texts in the source)
NotAnImage == "upload an image file (JPG/PNG)"

TooLarge == "the image must not exceed 5MB"

\* the order numbers that generateOrderNo returns to the checkouts of the
\* page: with one draw, a second checkout of the page in the same second
\* meets the order of the first
PageOrderNos == { generateOrderNo(d, 23) : d \in Dates }

\* how many of the two sessionStorage.setItem calls of handlePayAndAnalyze
\* succeed before one throws (the storage is full or refuses the image)
SetItemOutcomes == 0..2

\* the local variables of a callback that are alive across its await;
\* restore: the previewUrl of the render that made the callback was null.
\* Of its request: the handler of the backend while it is suspended (h), the
\* response once the backend has answered (res), and whether the callback
\* still waits for it (page)
Continuation(op, by, tradeNo, imageUrl, params) ==
  [op |-> op, by |-> by, tradeNo |-> tradeNo, imageUrl |-> imageUrl, params |-> params,
   restore |-> FALSE, h |-> NoHandler, res |-> NoResponse, page |-> TRUE]

\* the request has not reached the backend
Sent(c) == c.op # "reader" /\ c.h = NoHandler /\ c.res = NoResponse

\* the backend has answered
Answered(c) == c.res # NoResponse

\* the callback goes on: with the response (arrives), or with the TypeError
\* of a fetch that was rejected
Settles(c, arrives) == BagIn(c, pending) /\ c.page /\ (arrives => Answered(c))

\* the requests under way with d in the place of c
Replaced(suspended, c, d) == (suspended (-) SetToBag({c})) (+) SetToBag({d})

\* the requests under way once the callback of c has gone on: a request
\* that the backend has not answered is still on its way or in the hands of
\* its handler
Settled(suspended, c) ==
  IF Answered(c) THEN suspended (-) SetToBag({c})
  ELSE Replaced(suspended, c, [c EXCEPT !.page = FALSE])

\* the requests under way once the backend has answered c with r: the
\* response of a request whose callback is gone reaches nobody
AnsweredWith(suspended, c, r) ==
  IF c.page THEN Replaced(suspended, c, [c EXCEPT !.h = NoHandler, !.res = r])
  ELSE suspended (-) SetToBag({c})

\* the requests that are on their way and the handlers of the backend that
\* go on when the page is gone
RECURSIVE Orphans(_)
Orphans(suspended) ==
  IF suspended = EmptyBag THEN EmptyBag
  ELSE LET c == CHOOSE x \in BagToSet(suspended) : TRUE
           n == CopiesIn(c, suspended)
           o == [c EXCEPT !.page = FALSE]
       IN (IF c.op = "reader" \/ Answered(c) THEN EmptyBag
           ELSE [ x \in {o} |-> n ])
            (+) Orphans([ x \in BagToSet(suspended) \ {c} |-> suspended[x] ])

\* the message of the TypeError that fetch rejects with
NetworkError == "Failed to fetch"

\* isBusy, showResult, hasPhoto
Derived(c) ==
  [isBusy     |-> c.appState \in {"paying", "waiting_payment", "analyzing"},
   showResult |-> c.appState = "result" /\ c.result # Null,
   hasPhoto   |-> c.previewUrl # Null]

\* a file is chosen in one of the two file inputs, which stay mounted
\* whatever the page shows: a file that is no image or is too large leaves
\* its message and nothing else; the FileReader of any other is started
handleFileSelect(file) ==
  /\ IF ~IsImage(file)
       THEN client' = [client EXCEPT !.errorMsg = NotAnImage] /\ UNCHANGED pending
     ELSE IF file.size > MaxFileSize
       THEN client' = [client EXCEPT !.errorMsg = TooLarge] /\ UNCHANGED pending
     ELSE /\ BagCardinality(pending) < MaxPending
          /\ pending' = pending (+) SetToBag({Continuation("reader", "select", Null, Photo, <<>>)})
          /\ UNCHANGED client
  /\ UNCHANGED <<orders, inflight, res, paidTransitions, analyzedTransitions, aiCalls,
                 env, callArgs, callResult, browser, pollRuns, cancelled>>

\* reader.onload, whatever the page shows by then
readerOnload(c) ==
  /\ BagIn(c, pending) /\ c.op = "reader"
  /\ pending' = pending (-) SetToBag({c})
  /\ client' = [client EXCEPT !.previewUrl = c.imageUrl, !.appState = "uploaded",
                              !.result = Null, !.errorMsg = ""]
  /\ UNCHANGED <<orders, inflight, res, paidTransitions, analyzedTransitions, aiCalls,
                 env, callArgs, callResult, browser, pollRuns, cancelled>>

\* runAnalysis up to its fetch: the state is set and the request is sent
runAnalysis(c, suspended, by, tradeNo, imageUrl) ==
  [client  |-> [c EXCEPT !.appState = "analyzing"],
   pending |-> suspended (+) SetToBag({Continuation("analyze", by, tradeNo, imageUrl, <<>>)})]

\* the attempt ends in state result whatever was answered
runAnalysisEndAlwaysResult(c, arrives, r) ==
  [c EXCEPT !.result = IF arrives /\ r.status = 200 THEN r.body.data ELSE Null,
            !.appState = "result"]

\* runAnalysis from the response on: the data and state result, or the
\* catch block with the message and state uploaded
runAnalysisEnd(c, arrives, r) ==
  IF ~arrives THEN [c EXCEPT !.errorMsg = NetworkError, !.appState = "uploaded"]
  ELSE IF r.status \notin 200..299 \/ ~r.body.success
    THEN [c EXCEPT !.errorMsg = IF Falsy(r.body.error)
                                THEN "analysis failed (HTTP " \o ToString(r.status) \o ")"
                                ELSE r.body.error,
                   !.appState = "uploaded"]
  ELSE [c EXCEPT !.result = r.body.data, !.appState = "result"]

\* req.body of the analyze request of the page
AnalyzeBodyOf(a) == Obj(<< <<"image", a.imageUrl>>, <<"out_trade_no", a.tradeNo>> >>)

\* POST /api/analyze of the page reaches the backend: the handler answers
\* after its checks, or is suspended at its update or at its AI call
analyzeReceived(a) ==
  LET c == AnalyzeChecks(env, AnalyzeBodyOf(a), orders)
  IN /\ BagIn(a, pending) /\ a.op = "analyze" /\ Sent(a)
     /\ IF c.answered
          THEN /\ pending' = AnsweredWith(pending, a, c.res)
               /\ UNCHANGED aiCalls
        ELSE IF c.h.pc = "ai"
          THEN /\ aiCalls[a.tradeNo] < MaxAiCalls
               /\ aiCalls' = [aiCalls EXCEPT ![a.tradeNo] = @ + 1]
               /\ pending' = Replaced(pending, a, [a EXCEPT !.h = c.h])
        ELSE /\ pending' = Replaced(pending, a, [a EXCEPT !.h = c.h])
             /\ UNCHANGED aiCalls
     /\ UNCHANGED <<orders, inflight, res, paidTransitions, analyzedTransitions, env, callArgs,
                    callResult, client, browser, pollRuns, cancelled>>

\* the update of that handler, after which it starts its AI call, or answers
\* when getOpenAIClient throws
analyzeUpdated(a) ==
  LET u == AnalyzeUpdateStep(env, a.h, orders)
  IN /\ BagIn(a, pending) /\ a.h.h = "analyze" /\ a.h.pc = "update"
     /\ orders' = u.rows
     /\ analyzedTransitions' =
          [analyzedTransitions EXCEPT ![a.tradeNo] = @ + (IF u.rows # orders THEN 1 ELSE 0)]
     /\ IF u.answered
          THEN /\ pending' = AnsweredWith(pending, a, u.res)
               /\ UNCHANGED aiCalls
          ELSE /\ aiCalls[a.tradeNo] < MaxAiCalls
               /\ aiCalls' = [aiCalls EXCEPT ![a.tradeNo] = @ + 1]
               /\ pending' = Replaced(pending, a, [a EXCEPT !.h = u.h])
     /\ UNCHANGED <<inflight, res, paidTransitions, env, callArgs, callResult, client,
                    browser, pollRuns, cancelled>>

\* the AI call of that handler ends and the handler answers; the response
\* of a request whose callback is gone reaches nobody
analyzeResponded(a, outcome) ==
  LET s == AnalyzeRespondStep(a.h, outcome, orders)
  IN /\ BagIn(a, pending) /\ a.h.h = "analyze" /\ a.h.pc = "ai"
     /\ orders' = s.rows
     /\ pending' = AnsweredWith(pending, a, s.res)
     /\ UNCHANGED <<inflight, res, paidTransitions, analyzedTransitions, aiCalls, env, callArgs,
                    callResult, client, browser, pollRuns, cancelled>>

\* the fetch of runAnalysis settles and the callback goes on
runAnalysisResume(a, arrives) ==
  /\ Settles(a, arrives) /\ a.op = "analyze"
  /\ pending' = Settled(pending, a)
  /\ client' = runAnalysisEnd(client, arrives, a.res)
  /\ UNCHANGED <<orders, inflight, res, paidTransitions, analyzedTransitions, aiCalls,
                 env, callArgs, callResult, browser, pollRuns, cancelled>>

\* the button is enabled with a photo, when nothing is under way and no
\* result is shown
handlePayAndAnalyze ==
  /\ Derived(client).hasPhoto /\ ~Derived(client).isBusy /\ ~Derived(client).showResult
  /\ BagCardinality(pending) < MaxPending
  /\ client' = [client EXCEPT !.errorMsg = "", !.appState = "paying"]
  /\ pending' = pending (+) SetToBag({Continuation("checkout", "pay", Null, client.previewUrl, <<>>)})
  /\ UNCHANGED <<orders, inflight, res, paidTransitions, analyzedTransitions, aiCalls,
                 env, callArgs, callResult, browser, pollRuns, cancelled>>

\* POST /api/checkout/providers/zpay/url of the page is handled by the
\* backend, with the order number o that generateOrderNo returns
checkoutHandled(c, o) ==
  LET run == CheckoutIn(env, Obj(<< <<"uid", "u1">>, <<"pay_type", "alipay">> >>), o, orders)
  IN /\ BagIn(c, pending) /\ c.op = "checkout" /\ Sent(c)
     /\ orders' = run.rows
     /\ pending' = AnsweredWith(pending, c, run.res)
     /\ UNCHANGED <<inflight, res, paidTransitions, analyzedTransitions, aiCalls, env, callArgs,
                    callResult, client, browser, pollRuns, cancelled>>

\* the fetch of handlePayAndAnalyze settles: the order number is kept, the
\* order number and the photo are stored as far as sessionStorage takes
\* them, and the page waits for the payment; or the catch block
handlePayAndAnalyzeResume(c, arrives, stored) ==
  LET r == c.res
  IN /\ Settles(c, arrives) /\ c.op = "checkout"
     /\ pending' = Settled(pending, c)
     /\ IF ~arrives
          THEN /\ client' = [client EXCEPT !.errorMsg = NetworkError, !.appState = "uploaded"]
               /\ stored = 0
               /\ UNCHANGED browser
        ELSE IF r.status \notin 200..299 \/ ~r.body.success
          THEN /\ client' = [client EXCEPT
                               !.errorMsg = IF Falsy(r.body.error)
                                            THEN "no payment link (HTTP " \o ToString(r.status) \o ")"
                                            ELSE r.body.error,
                               !.appState = "uploaded"]
               /\ stored = 0
               /\ UNCHANGED browser
        ELSE /\ client' = [client EXCEPT !.outTradeNo = r.body.out_trade_no,
                                         !.appState = "waiting_payment"]
             /\ browser' = [browser EXCEPT
                              !.trade = IF stored >= 1 THEN r.body.out_trade_no ELSE @,
                              !.image = IF stored >= 2 THEN c.imageUrl ELSE @]
     /\ UNCHANGED <<orders, inflight, res, paidTransitions, analyzedTransitions, aiCalls, env,
                    callArgs, callResult, pollRuns, cancelled>>

\* a tick of the interval that the polling effect keeps while the state is
\* waiting_payment with an order number and a photo: the callback sends
\* its status request
pollTick ==
  /\ client.appState = "waiting_payment"
  /\ ~Falsy(client.outTradeNo) /\ ~Falsy(client.previewUrl)
  /\ BagCardinality(pending) < MaxPending
  /\ pending' = pending (+) SetToBag({Continuation("poll", "poll", client.outTradeNo, client.previewUrl, <<>>)})
  /\ UNCHANGED <<orders, inflight, res, paidTransitions, analyzedTransitions, aiCalls,
                 env, callArgs, callResult, client, browser, pollRuns, cancelled>>

\* GET /api/checkout/providers/zpay/status of a polling callback is handled
\* by the backend
statusHandled(cb) ==
  LET run == StatusIn(env, Obj(<< <<"out_trade_no", cb.tradeNo>> >>), orders)
  IN /\ BagIn(cb, pending) /\ cb.op = "poll" /\ Sent(cb)
     /\ orders' = run.rows
     /\ pending' = AnsweredWith(pending, cb, run.res)
     /\ UNCHANGED <<inflight, res, paidTransitions, analyzedTransitions, aiCalls, env, callArgs,
                    callResult, client, browser, pollRuns, cancelled>>

\* the fetch of a polling callback settles: on paid or analyzed the
\* callback clears its interval and calls runAnalysis with the values it
\* captured; a rejected fetch is ignored
pollResume(cb, arrives) ==
  LET paid  == arrives /\ cb.res.body.success /\ cb.res.body.status \in {"paid", "analyzed"}
      start == runAnalysis(client, Settled(pending, cb), "poll", cb.tradeNo, cb.imageUrl)
  IN /\ Settles(cb, arrives) /\ cb.op = "poll"
     /\ IF paid
          THEN /\ client' = start.client
               /\ pending' = start.pending
               /\ pollRuns' = [pollRuns EXCEPT ![cb.tradeNo] = @ + 1]
          ELSE /\ pending' = Settled(pending, cb)
               /\ UNCHANGED <<client, pollRuns>>
     /\ UNCHANGED <<orders, inflight, res, paidTransitions, analyzedTransitions, aiCalls,
                    env, callArgs, callResult, browser, cancelled>>

\* POST /api/checkout/providers/zpay/confirm-return: the router has the
\* routes url, webhook and status only, so express answers and no handler
\* runs
ConfirmReturnRun(params, rows) ==
  [rows |-> rows,
   res  |-> Response("express", 404,
                     Text("Cannot POST /api/checkout/providers/zpay/confirm-return"), "")]

\* the page is loaded, with the return URL of the provider or without
\* query string: the state starts over, the callbacks of the page before it
\* are gone, and the effect for the return URL runs once
pageLoad(search) ==
  LET urlTradeNo  == Get(search, "out_trade_no")
      savedTradeNo == browser.trade
      savedImage   == browser.image
  IN /\ IF Falsy(urlTradeNo) \/ Get(search, "trade_status") # "TRADE_SUCCESS"
          THEN /\ client' = InitialState
               /\ browser' = [browser EXCEPT !.search = search]
               /\ pending' = Orphans(pending)
        ELSE IF savedTradeNo # urlTradeNo \/ Falsy(savedImage)
          THEN /\ client' = [InitialState EXCEPT !.errorMsg = "payment succeeded, upload the photo again",
                                                 !.outTradeNo = urlTradeNo]
               /\ browser' = [search |-> <<>>, trade |-> Null, image |-> Null]
               /\ pending' = Orphans(pending)
        ELSE /\ BagCardinality(Orphans(pending)) < MaxPending
             /\ client' = [InitialState EXCEPT !.previewUrl = savedImage, !.outTradeNo = urlTradeNo,
                                               !.appState = "analyzing"]
             /\ browser' = [search |-> <<>>, trade |-> Null, image |-> Null]
             /\ pending' = Orphans(pending)
                             (+) SetToBag({Continuation("confirm", "return", urlTradeNo, savedImage, search)})
     /\ UNCHANGED <<orders, inflight, res, paidTransitions, analyzedTransitions, aiCalls,
                    env, callArgs, callResult, pollRuns, cancelled>>

\* the button under the payment button while the state is waiting_payment
handleConfirmPaid ==
  LET tradeNo  == IF Falsy(client.outTradeNo) THEN browser.trade ELSE client.outTradeNo
      imageUrl == IF Falsy(client.previewUrl) THEN browser.image ELSE client.previewUrl
      withUrl  == /\ Get(browser.search, "out_trade_no") = tradeNo
                  /\ Get(browser.search, "trade_status") = "TRADE_SUCCESS"
      restored == IF Falsy(client.previewUrl) THEN [client EXCEPT !.previewUrl = imageUrl]
                  ELSE client
      start    == runAnalysis(restored, pending, "confirmPaid", tradeNo, imageUrl)
  IN /\ client.appState = "waiting_payment"
     /\ ~Falsy(tradeNo) /\ ~Falsy(imageUrl)
     /\ BagCardinality(pending) < MaxPending
     /\ IF withUrl
          THEN /\ client' = [client EXCEPT !.appState = "analyzing"]
               /\ pending' = pending (+) SetToBag({
                    [Continuation("confirm", "confirmPaid", tradeNo, imageUrl, browser.search)
                       EXCEPT !.restore = Falsy(client.previewUrl)]})
               /\ UNCHANGED browser
          ELSE /\ client' = start.client
               /\ pending' = start.pending
               /\ browser' = [browser EXCEPT !.trade = Null, !.image = Null]
     /\ UNCHANGED <<orders, inflight, res, paidTransitions, analyzedTransitions, aiCalls,
                    env, callArgs, callResult, pollRuns, cancelled>>

\* the confirm-return request of the page is answered by the backend
confirmReturnHandled(c) ==
  LET run == ConfirmReturnRun(c.params, orders)
  IN /\ BagIn(c, pending) /\ c.op = "confirm" /\ Sent(c)
     /\ orders' = run.rows
     /\ pending' = AnsweredWith(pending, c, run.res)
     /\ UNCHANGED <<inflight, res, paidTransitions, analyzedTransitions, aiCalls, env, callArgs,
                    callResult, client, browser, pollRuns, cancelled>>

\* the fetch of confirm-return settles; its response is not looked at.  The
\* return effect goes on to runAnalysis, or to its catch block when the
\* fetch rejected; handleConfirmPaid restores the preview that was missing
\* when the button was pressed, clears the two stored items and goes on to
\* runAnalysis in either case
confirmResume(c, arrives) ==
  LET restored == IF c.by = "confirmPaid" /\ c.restore
                  THEN [client EXCEPT !.previewUrl = c.imageUrl]
                  ELSE client
      start    == runAnalysis(restored, Settled(pending, c), c.by, c.tradeNo, c.imageUrl)
  IN /\ Settles(c, arrives) /\ c.op = "confirm"
     /\ IF ~arrives /\ c.by = "return"
          THEN /\ client' = [client EXCEPT !.errorMsg = NetworkError, !.appState = "uploaded"]
               /\ pending' = Settled(pending, c)
               /\ UNCHANGED browser
          ELSE /\ client' = start.client
               /\ pending' = start.pending
               /\ browser' = IF c.by = "confirmPaid"
                             THEN [browser EXCEPT !.trade = Null, !.image = Null]
                             ELSE browser
     /\ UNCHANGED <<orders, inflight, res, paidTransitions, analyzedTransitions, aiCalls, env,
                    callArgs, callResult, pollRuns, cancelled>>

\* a request that was on its way when its callback went on without it, or
\* when the page was left, never reaches the backend
requestLost(c) ==
  /\ BagIn(c, pending) /\ Sent(c) /\ ~c.page
  /\ pending' = pending (-) SetToBag({c})
  /\ UNCHANGED <<orders, inflight, res, paidTransitions, analyzedTransitions, aiCalls,
                 env, callArgs, callResult, client, browser, pollRuns, cancelled>>

\* the buttons that call handleReset: on the preview when nothing is under
\* way, under the payment button while waiting for the payment, under a
\* result
handleReset ==
  /\ \/ Derived(client).hasPhoto /\ ~Derived(client).isBusy
     \/ client.appState = "waiting_payment"
     \/ Derived(client).showResult
  /\ client' = InitialState
  /\ cancelled' = IF client.appState = "waiting_payment" /\ ~Falsy(client.outTradeNo)
                  THEN cancelled \cup {client.outTradeNo}
                  ELSE cancelled
  /\ UNCHANGED <<orders, inflight, res, paidTransitions, analyzedTransitions, aiCalls,
                 env, callArgs, callResult, browser, pending, pollRuns>>

\* the page, the backend that handles its requests step by step (the
\* response of a request of the page is kept with the request), and the
\* provider, which notifies the webhook of the payment and notifies again
\* once the webhook has answered; the page can be loaded at any time
ClientNext ==
  \/ \E file \in Files : handleFileSelect(file)
  \/ \E c \in BagToSet(pending) : readerOnload(c)
  \/ handlePayAndAnalyze
  \/ \E c \in BagToSet(pending), o \in PageOrderNos : checkoutHandled(c, o)
  \/ \E c \in BagToSet(pending), arrives \in BOOLEAN, stored \in SetItemOutcomes :
       handlePayAndAnalyzeResume(c, arrives, stored)
  \/ pollTick
  \/ \E cb \in BagToSet(pending) : statusHandled(cb)
  \/ \E cb \in BagToSet(pending), arrives \in BOOLEAN : pollResume(cb, arrives)
  \/ handleConfirmPaid
  \/ \E search \in PaidNotifications \cup {<<>>} : pageLoad(search)
  \/ \E c \in BagToSet(pending) : confirmReturnHandled(c)
  \/ \E c \in BagToSet(pending), arrives \in BOOLEAN : confirmResume(c, arrives)
  \/ \E a \in BagToSet(pending) : analyzeReceived(a)
  \/ \E a \in BagToSet(pending) : analyzeUpdated(a)
  \/ \E a \in BagToSet(pending), outcome \in AiOutcomes : analyzeResponded(a, outcome)
  \/ \E a \in BagToSet(pending), arrives \in BOOLEAN : runAnalysisResume(a, arrives)
  \/ \E c \in BagToSet(pending) : requestLost(c)
  \/ handleReset
  \/ \E params \in PaidNotifications : inflight = EmptyBag /\ WebhookReceive(params)
  \/ \E h \in Handlers : WebhookUpdate(h)

ClientSpec == Init /\ [][ClientNext]_vars

\* the analyze requests of the page that are under way
AnalysesPending == { a \in BagToSet(pending) : a.op = "analyze" }

(***************************************************************************)
(* The second component Index of the page source: the page without backend *)
(* whose button waits for two timers and shows one of MOCK_RESULTS.  Its   *)
(* handleFileSelect and reader.onload are those of the first component;    *)
(* it has no order number                                                  *)
(***************************************************************************)
\* celebrity of the entries of MOCK_RESULTS (Chinese names in the source)
MOCK_RESULTS ==
  <<"Wang Zhaojun", "Li Bai", "Wu Zetian", "Cao Cao", "Diao Chan", "Zhuge Liang">>

\* Math.floor(Math.random() * MOCK_RESULTS.length)
MockDraws == 0..(Len(MOCK_RESULTS) - 1)

\* a timer of handlePayAndAnalyze that is running in state phase
Timer(phase) == Continuation("timer", phase, Null, Null, <<>>)

\* the button is enabled with a photo, outside paying and analyzing, when no
\* result is shown: the state is set and the timer of 1200 ms is started
handlePayAndAnalyzeMock ==
  /\ client.previewUrl # Null
  /\ client.appState \notin {"paying", "analyzing"}
  /\ ~(client.appState = "result" /\ client.result # Null)
  /\ BagCardinality(pending) < MaxPending
  /\ client' = [client EXCEPT !.appState = "paying"]
  /\ pending' = pending (+) SetToBag({Timer("paying")})
  /\ UNCHANGED <<orders, inflight, res, paidTransitions, analyzedTransitions, aiCalls,
                 env, callArgs, callResult, browser, pollRuns, cancelled>>

\* the first timer ends: state analyzing and the timer of 2000 ms
payTimerEnds(c) ==
  /\ BagIn(c, pending) /\ c = Timer("paying")
  /\ client' = [client EXCEPT !.appState = "analyzing"]
  /\ pending' = Replaced(pending, c, Timer("analyzing"))
  /\ UNCHANGED <<orders, inflight, res, paidTransitions, analyzedTransitions, aiCalls,
                 env, callArgs, callResult, browser, pollRuns, cancelled>>

\* the second timer ends: the entry that was drawn and state result
analysisTimerEnds(c, draw) ==
  /\ BagIn(c, pending) /\ c = Timer("analyzing")
  /\ client' = [client EXCEPT !.result = MOCK_RESULTS[draw + 1], !.appState = "result"]
  /\ pending' = pending (-) SetToBag({c})
  /\ UNCHANGED <<orders, inflight, res, paidTransitions, analyzedTransitions, aiCalls,
                 env, callArgs, callResult, browser, pollRuns, cancelled>>

\* the button on the preview, shown with a photo whatever the state, and
\* the button under a result; the timers go on
handleResetMock ==
  /\ client.previewUrl # Null \/ (client.appState = "result" /\ client.result # Null)
  /\ client' = [client EXCEPT !.appState = "idle", !.previewUrl = Null, !.result = Null,
                              !.errorMsg = ""]
  /\ UNCHANGED <<orders, inflight, res, paidTransitions, analyzedTransitions, aiCalls,
                 env, callArgs, callResult, browser, pending, pollRuns, cancelled>>

MockNext ==
  \/ \E file \in Files : handleFileSelect(file)
  \/ \E c \in BagToSet(pending) : readerOnload(c)
  \/ handlePayAndAnalyzeMock
  \/ \E c \in BagToSet(pending) : payTimerEnds(c)
  \/ \E c \in BagToSet(pending), draw \in MockDraws : analysisTimerEnds(c, draw)
  \/ handleResetMock

MockSpec == Init /\ [][MockNext]_vars

\* the second component sends nothing and keeps no order: no request is
\* under way, the store stays empty, and state result has a result
MockPageAlone ==
  /\ orders = <<>> /\ client.outTradeNo = Null
  /\ \A c \in BagToSet(pending) : c.op \in {"reader", "timer"}
  /\ client.appState = "result" => client.result # Null

\* C36: the polling effect starts the analysis at most once for an order,
\* whatever the timing of the ticks and of the status responses: the
\* polling callbacks call runAnalysis at most once for each order, and at
\* most one analyze request of theirs is under way.
C36_PollingStartsOnce ==
  /\ \A o \in OrderNos : pollRuns[o] <= 1
  /\ \A a, b \in AnalysesPending :
       a.by = "poll" /\ b.by = "poll" /\ a.tradeNo = b.tradeNo
       => a = b /\ CopiesIn(a, pending) = 1

\* C37: after the user cancels a waiting payment, no analyze request is
\* sent for the cancelled order by a polling callback, and no polling
\* callback takes the page out of state idle by starting the analysis, even
\* if a status poll that was under way reports paid afterwards.
C37_CancelStopsPolling ==
  /\ [](\A a \in AnalysesPending : a.by = "poll" => a.tradeNo \notin cancelled)
  /\ [][client.appState = "idle" /\ client'.appState # "idle"
        => ~\E a \in BagToSet(pending') :
              /\ a.op = "analyze" /\ a.by = "poll"
              /\ CopiesIn(a, pending') > CopiesIn(a, pending)]_vars

\* an attempt has ended as the claim says
AttemptEnded(c) ==
  \/ c.appState = "result" /\ c.result # Null
  \/ c.appState = "uploaded" /\ c.errorMsg # ""

\* C38: when the analyze request of an attempt completes or fails, the page
\* leaves state analyzing for state result with a result that is not null,
\* or for state uploaded with an error message that is not empty: so it is
\* for the response that the backend has given to an analyze request of the
\* page, and for a fetch that is rejected; and the page is never in state
\* result with a null result.
C38_AttemptEnds ==
  /\ client.appState = "result" => client.result # Null
  /\ \A a \in AnalysesPending :
       a.page => /\ AttemptEnded(runAnalysisEnd(client, FALSE, NoResponse))
                 /\ Answered(a) => AttemptEnded(runAnalysisEnd(client, TRUE, a.res))

\* an attempt failed, leaving its message, and another attempt ended with
\* the result
C38_Witness ==
  /\ client.appState = "result" /\ client.result = "safeResult" /\ client.errorMsg # ""
  /\ AnalysesPending = {}

\* C31: in the return-URL flow the payment is confirmed at the backend
\* before the analysis: the return parameters that the page posts are
\* answered by the backend with the order updated after their signature was
\* verified, and an analyze request of the flow is sent only for an order
\* that is no longer pending.
C31_ConfirmedBeforeAnalysis ==
  /\ \A c \in BagToSet(pending) :
       c.op = "confirm" /\ c.by = "return"
       => LET run == ConfirmReturnRun(c.params, orders)
          IN /\ run.res.status = 200
             /\ c.tradeNo \in DOMAIN run.rows
             /\ run.rows[c.tradeNo].status \in {"paid", "analyzed"}
  /\ \A a \in AnalysesPending :
       a.by = "return" => a.tradeNo \in DOMAIN orders /\ orders[a.tradeNo].status # "pending"

====
